---- MODULE Spec2Model ----
(***************************************************************************)
(* A model of the group social-state simulation and event-application      *)
(* engine: Emotion (src/emotion.py), Character (src/character.py), Chatbot *)
(* (src/chatbot.py), UserControl (src/user_control.py), Group              *)
(* (src/group.py), Event.apply (src/event.py), the day loader and runner of  *)
(* Game (src/game.py) and the stepping of GameGUI (src/gui_game.py).       *)
(*                                                                         *)
(* Conventions.                                                            *)
(*  - A Character is identified by its name (Character.__eq__/__hash__ are  *)
(*    name based), so an actor is a string and Python's None is "None".     *)
(*  - An Emotion value is the string of its enum name.                      *)
(*  - A Python str that the code parses is a tuple of one-letter strings.   *)
(*  - tension is a float in the code; here it is an integer count of        *)
(*    0.005 units, so 1.0 is 200, -0.03 is -6, 0.02 is 4, 0.01 is 2 and     *)
(*    0.015 is 3.  Rounding of binary floating point is not modelled.       *)
(*  - The timestamp of a dialogue record is left out.                       *)
(*  - Operators that model code which draws at random, asks the generation  *)
(*    backend or asks the human return the SET of possible results.         *)
(***************************************************************************)
EXTENDS Integers, Sequences, FiniteSets, TLC

(***************************************************************************)
(* Bounds of the model.                                                    *)
(***************************************************************************)
\* number of top-level operations (events, API calls) applied to one Group
MaxEvents == 3
\* depth of nested apply_line frames at which the interpreter gives up with
\* RecursionError (1000 frames by default in CPython; small here)
RecursionLimit == 3

(***************************************************************************)
(* Program constants.                                                      *)
(***************************************************************************)
NoneVal == "None"
\* src/emotion.py:176-182, in units of 0.005
PositiveImpact == -6
NeutralImpact == 0
NegativeImpact == 4
ComplexImpact == 2
\* src/group.py:214, 0.015
OffenceBump == 3
\* src/group.py:178, 0.0 and 1.0
TensionMin == 0
TensionMax == 200
\* src/chatbot.py:184, src/user_control.py:66
ChatbotHistoryCap == 20
UserControlHistoryCap == 20
\* src/character.py:134
ResilienceCutoff == 70
\* src/user_control.py:69
NumOptions == 3

Max(a, b) == IF a >= b THEN a ELSE b
Min(a, b) == IF a <= b THEN a ELSE b

\* Python's "x in list" and list.remove(x) (first occurrence)
InSeq(x, s) == \E i \in 1..Len(s) : s[i] = x

IndexOf(x, s) == CHOOSE i \in 1..Len(s) : s[i] = x /\ \A j \in 1..(i - 1) : s[j] # x

ListRemove(s, x) ==
    IF ~InSeq(x, s) THEN s
    ELSE LET k == IndexOf(x, s)
         IN SubSeq(s, 1, k - 1) \o SubSeq(s, k + 1, Len(s))

(***************************************************************************)
(* Emotion: src/emotion.py                                                 *)
(***************************************************************************)
positive == {"COMPASSIONATE", "EXCITED", "FLIRTY", "HOPEFUL", "HUMOROUS", "PROUD",
             "RESPECTFUL", "SOLEMN", "FRIENDLY", "ADMIRATION"}

neutral == {"CALM", "CONFUSED", "CONTEMPLATIVE", "CURIOUS", "SURPRISED", "RESIGNED",
            "NEUTRAL"}

negative == {"ANGRY", "ANXIOUS", "DOWN", "EMBARRASSED", "FEARFUL", "IRRITATED",
             "HOSTILE", "FEAR"}

complex == {"DEFENSIVE", "DESPERATE", "DISMISSIVE", "JEALOUS", "SARCASTIC", "SKEPTICAL"}

Emotion == {"COMPASSIONATE", "EXCITED", "FLIRTY", "HOPEFUL", "HUMOROUS", "PROUD",
            "RESPECTFUL", "SOLEMN", "CALM", "CONFUSED", "CONTEMPLATIVE", "CURIOUS",
            "SURPRISED", "RESIGNED", "ANGRY", "ANXIOUS", "DOWN", "EMBARRASSED",
            "FEARFUL", "IRRITATED", "DEFENSIVE", "DESPERATE", "DISMISSIVE", "JEALOUS",
            "SARCASTIC", "SKEPTICAL", "FRIENDLY", "NEUTRAL", "HOSTILE", "ADMIRATION",
            "FEAR"}

get_category(e) ==
    IF e \in positive THEN "positive"
    ELSE IF e \in neutral THEN "neutral"
    ELSE IF e \in negative THEN "negative"
    ELSE IF e \in complex THEN "complex"
    ELSE "unknown"

\* a variant of get_tension_impact with the two magnitudes exchanged
get_tension_impact_exchanged(e) ==
    LET category == get_category(e)
    IN IF category = "positive" THEN -NegativeImpact
       ELSE IF category = "neutral" THEN NeutralImpact
       ELSE IF category = "negative" THEN -PositiveImpact
       ELSE IF category = "complex" THEN ComplexImpact
       ELSE 0

get_tension_impact(e) ==
    LET category == get_category(e)
    IN IF category = "positive" THEN PositiveImpact
       ELSE IF category = "neutral" THEN NeutralImpact
       ELSE IF category = "negative" THEN NegativeImpact
       ELSE IF category = "complex" THEN ComplexImpact
       ELSE 0

\* str.lower() on the letters the inputs use
UpperLetters == <<"A", "B", "C", "D", "E", "F", "G", "H", "I", "J", "K", "L", "M",
                  "N", "O", "P", "Q", "R", "S", "T", "U", "V", "W", "X", "Y", "Z">>

LowerLetters == <<"a", "b", "c", "d", "e", "f", "g", "h", "i", "j", "k", "l", "m",
                  "n", "o", "p", "q", "r", "s", "t", "u", "v", "w", "x", "y", "z">>

lower_char(c) ==
    IF InSeq(c, UpperLetters) THEN LowerLetters[IndexOf(c, UpperLetters)] ELSE c

lower(s) == [i \in 1..Len(s) |-> lower_char(s[i])]

emotion_map ==
    <<
       <<<<"c", "o", "m", "p", "a", "s", "s", "i", "o", "n", "a", "t", "e">>, "COMPASSIONATE">>,
       <<<<"e", "x", "c", "i", "t", "e", "d">>, "EXCITED">>,
       <<<<"f", "l", "i", "r", "t", "y">>, "FLIRTY">>,
       <<<<"h", "o", "p", "e", "f", "u", "l">>, "HOPEFUL">>,
       <<<<"h", "u", "m", "o", "r", "o", "u", "s">>, "HUMOROUS">>,
       <<<<"p", "r", "o", "u", "d">>, "PROUD">>,
       <<<<"r", "e", "s", "p", "e", "c", "t", "f", "u", "l">>, "RESPECTFUL">>,
       <<<<"s", "o", "l", "e", "m", "n">>, "SOLEMN">>,
       <<<<"c", "a", "l", "m">>, "CALM">>,
       <<<<"c", "o", "n", "f", "u", "s", "e", "d">>, "CONFUSED">>,
       <<<<"c", "o", "n", "t", "e", "m", "p", "l", "a", "t", "i", "v", "e">>, "CONTEMPLATIVE">>,
       <<<<"c", "u", "r", "i", "o", "u", "s">>, "CURIOUS">>,
       <<<<"s", "u", "r", "p", "r", "i", "s", "e", "d">>, "SURPRISED">>,
       <<<<"r", "e", "s", "i", "g", "n", "e", "d">>, "RESIGNED">>,
       <<<<"a", "n", "g", "r", "y">>, "ANGRY">>,
       <<<<"a", "n", "x", "i", "o", "u", "s">>, "ANXIOUS">>,
       <<<<"d", "o", "w", "n">>, "DOWN">>,
       <<<<"e", "m", "b", "a", "r", "r", "a", "s", "s", "e", "d">>, "EMBARRASSED">>,
       <<<<"f", "e", "a", "r", "f", "u", "l">>, "FEARFUL">>,
       <<<<"i", "r", "r", "i", "t", "a", "t", "e", "d">>, "IRRITATED">>,
       <<<<"d", "e", "f", "e", "n", "s", "i", "v", "e">>, "DEFENSIVE">>,
       <<<<"d", "e", "s", "p", "e", "r", "a", "t", "e">>, "DESPERATE">>,
       <<<<"d", "i", "s", "m", "i", "s", "s", "i", "v", "e">>, "DISMISSIVE">>,
       <<<<"j", "e", "a", "l", "o", "u", "s">>, "JEALOUS">>,
       <<<<"s", "a", "r", "c", "a", "s", "t", "i", "c">>, "SARCASTIC">>,
       <<<<"s", "k", "e", "p", "t", "i", "c", "a", "l">>, "SKEPTICAL">>,
       <<<<"f", "r", "i", "e", "n", "d", "l", "y">>, "FRIENDLY">>,
       <<<<"n", "e", "u", "t", "r", "a", "l">>, "NEUTRAL">>,
       <<<<"h", "o", "s", "t", "i", "l", "e">>, "HOSTILE">>,
       <<<<"a", "d", "m", "i", "r", "a", "t", "i", "o", "n">>, "ADMIRATION">>,
       <<<<"f", "e", "a", "r">>, "FEAR">>

    >>

\* a variant of from_string that looks the string up as it is spelt
from_string_as_spelt(emotion_str) ==
    LET hits == {i \in 1..Len(emotion_map) : emotion_map[i][1] = emotion_str}
    IN IF hits = {} THEN "NEUTRAL" ELSE emotion_map[CHOOSE i \in hits : TRUE][2]

from_string(emotion_str) ==
    LET key == lower(emotion_str)
        hits == {i \in 1..Len(emotion_map) : emotion_map[i][1] = key}
    IN IF hits = {} THEN "NEUTRAL" ELSE emotion_map[CHOOSE i \in hits : TRUE][2]

(***************************************************************************)
(* Character: src/character.py.  The roster is the one of the examples     *)
(* (two friends) with a third actor who is an enemy of the first; the      *)
(* traits are immutable, friends/enemies/current_emotion are state.        *)
(***************************************************************************)
Actors == {"A", "B", "C"}

Roster ==
    [c \in Actors |->
        IF c = "A" THEN [resilience |-> 70, friends |-> <<"B">>, enemies |-> <<"C">>]
        ELSE IF c = "B" THEN [resilience |-> 71, friends |-> <<"A">>, enemies |-> <<>>]
        ELSE [resilience |-> 40, friends |-> <<>>, enemies |-> <<"A">>]]

Character(name) ==
    [current_emotion |-> "NEUTRAL",
     friends |-> Roster[name].friends,
     enemies |-> Roster[name].enemies]

\* the emotion argument is an Emotion here; a str argument is converted by
\* from_string, which the callers in Event.apply do themselves
set_emotion(ch, emotion) == [ch EXCEPT !.current_emotion = emotion]

\* a variant of react_to_emotion that adds other to the new list without
\* removing it from the old one
react_to_emotion_adds_only(ch, other, emotion) ==
    IF get_category(emotion) = "positive" /\ InSeq(other, ch.enemies)
    THEN [ch EXCEPT !.friends = IF InSeq(other, @) THEN @ ELSE Append(@, other)]
    ELSE IF get_category(emotion) = "negative" /\ InSeq(other, ch.friends)
    THEN [ch EXCEPT !.enemies = IF InSeq(other, @) THEN @ ELSE Append(@, other)]
    ELSE ch

react_to_emotion(ch, other, emotion) ==
    IF get_category(emotion) = "positive" /\ InSeq(other, ch.enemies)
    THEN [ch EXCEPT !.enemies = ListRemove(@, other),
                    !.friends = IF InSeq(other, @) THEN @ ELSE Append(@, other)]
    ELSE IF get_category(emotion) = "negative" /\ InSeq(other, ch.friends)
    THEN [ch EXCEPT !.friends = ListRemove(@, other),
                    !.enemies = IF InSeq(other, @) THEN @ ELSE Append(@, other)]
    ELSE ch

\* random.random() < p for 0 < p < 1: either outcome
random_below == {TRUE, FALSE}

\* a variant of is_offended_by that decides on the relationship first and
\* looks at the resilience only when no other branch matched
is_offended_by_cutoff_last(self, ch, other, emotion) ==
    IF InSeq(other, ch.enemies) /\ get_category(emotion) \in {"negative", "complex"}
    THEN random_below
    ELSE IF InSeq(other, ch.friends) /\ emotion = "ANGRY" THEN random_below
    ELSE IF Roster[self].resilience > ResilienceCutoff THEN {FALSE}
    ELSE IF get_category(emotion) = "negative" THEN random_below
    ELSE {FALSE}

\* a variant of is_offended_by whose general branch takes a complex emotion
\* like a negative one
is_offended_by_any_complex(self, ch, other, emotion) ==
    IF Roster[self].resilience > ResilienceCutoff THEN {FALSE}
    ELSE IF InSeq(other, ch.enemies) /\ get_category(emotion) \in {"negative", "complex"}
    THEN random_below
    ELSE IF InSeq(other, ch.friends) /\ emotion = "ANGRY" THEN random_below
    ELSE IF get_category(emotion) \in {"negative", "complex"} THEN random_below
    ELSE {FALSE}

\* the set of results is_offended_by can return for actor self (state ch)
is_offended_by(self, ch, other, emotion) ==
    IF Roster[self].resilience > ResilienceCutoff THEN {FALSE}
    ELSE IF InSeq(other, ch.enemies) /\ get_category(emotion) \in {"negative", "complex"}
    THEN random_below
    ELSE IF InSeq(other, ch.friends) /\ emotion = "ANGRY" THEN random_below
    ELSE IF get_category(emotion) = "negative" THEN random_below
    ELSE {FALSE}

(***************************************************************************)
(* Chatbot (src/chatbot.py) and UserControl (src/user_control.py): a       *)
(* delegate is [is_active, conversation_history].                          *)
(***************************************************************************)
\* OpenAIAdapter.generate_response, lines 122-126: the text returned when the
\* call of the backend raises
FallbackText == "I'm not sure how to respond to that."

\* what the generation backend can return: a line, or nothing after strip()
AdapterOutputs == {"", "generated"}

\* the backend answers during an operation ("up") or its calls raise ("down")
Backends == {"up", "down"}

\* OpenAIAdapter.generate_response, lines 113-126: the text of the backend, or
\* the fallback text when the call raises
OpenAIAdapter_generate_response(backend) ==
    IF backend = "down" THEN {FallbackText} ELSE AdapterOutputs

\* what the human types at the prompt of present_options
UserInputs == {"S", "1"}

NewChatbot == [is_active |-> FALSE, conversation_history |-> <<>>]

NewUserControl == [is_active |-> FALSE, conversation_history |-> <<>>]

activate(d) == [d EXCEPT !.is_active = TRUE]

deactivate(d) == [d EXCEPT !.is_active = FALSE]

\* a variant of Chatbot.add_to_history that keeps the first entries
Chatbot_add_to_history_keep_first(cb, entry) ==
    LET h == Append(cb.conversation_history, entry)
    IN [cb EXCEPT !.conversation_history =
            IF Len(h) > ChatbotHistoryCap THEN SubSeq(h, 1, ChatbotHistoryCap) ELSE h]

Chatbot_add_to_history(cb, entry) ==
    LET h == Append(cb.conversation_history, entry)
    IN [cb EXCEPT !.conversation_history =
            IF Len(h) > ChatbotHistoryCap
            THEN SubSeq(h, Len(h) - ChatbotHistoryCap + 1, Len(h))
            ELSE h]

UserControl_add_to_history(uc, entry) ==
    LET h == Append(uc.conversation_history, entry)
    IN [uc EXCEPT !.conversation_history =
            IF Len(h) > UserControlHistoryCap
            THEN SubSeq(h, Len(h) - UserControlHistoryCap + 1, Len(h))
            ELSE h]

generate_response(cb, backend) ==
    IF ~cb.is_active THEN {""} ELSE OpenAIAdapter_generate_response(backend)

\* the parsed options, padded to num_options placeholders; the parse of the
\* backend's text is not modelled, so the options are the placeholders
generate_response_options(uc) ==
    IF ~uc.is_active THEN <<>>
    ELSE [i \in 1..NumOptions |-> IF i = 1 THEN "option 1"
                                  ELSE IF i = 2 THEN "option 2" ELSE "option 3"]

present_options(options) ==
    IF options = <<>> THEN {""}
    ELSE {IF choice = "S" THEN ""
          ELSE IF choice = "C" THEN "custom"
          ELSE IF choice = "1" THEN options[1]
          ELSE IF choice = "2" THEN options[2]
          ELSE options[3] : choice \in UserInputs}

handle_addressed(uc) ==
    IF ~uc.is_active THEN {""} ELSE present_options(generate_response_options(uc))

(***************************************************************************)
(* Group: src/group.py.  A Group value g is a record of the object's       *)
(* fields, the state of the Character objects it refers to, and a record   *)
(* of what the operation in progress has done so far:                      *)
(*   calls  the apply_line invocations of the operation, in call order     *)
(*   err    the exception that ended the operation, or "none"              *)
(*   backend  whether the generation backend answers during the operation  *)
(*   produced  the line the speaker's delegate produced for a dialogue     *)
(*          event, or "None"                                               *)
(***************************************************************************)
\* dict assignment d[k] = v and del d[k]
Put(d, k, v) == [x \in (DOMAIN d) \cup {k} |-> IF x = k THEN v ELSE d[x]]

Del(d, k) == [x \in (DOMAIN d) \ {k} |-> d[x]]

EmptyDict == [x \in {} |-> NoneVal]

SeqToSet(s) == {s[i] : i \in 1..Len(s)}

SeedEmotion(ch, other) ==
    IF InSeq(other, ch.friends) THEN "FRIENDLY"
    ELSE IF InSeq(other, ch.enemies) THEN "HOSTILE"
    ELSE "NEUTRAL"

\* Group.__init__(members), the Character objects being freshly constructed
NewGroup(ms) ==
    [members |-> ms,
     general_mood |-> EmptyDict,
     emotions |-> [c1 \in SeqToSet(ms) |->
                      [c2 \in SeqToSet(ms) \ {c1} |-> SeedEmotion(Character(c1), c2)]],
     tension |-> 0,
     chatbots |-> EmptyDict,
     user_controls |-> EmptyDict,
     conversation_history |-> EmptyDict,
     current_day |-> "day-01",
     characters |-> [c \in Actors |-> Character(c)],
     calls |-> <<>>,
     err |-> "none",
     produced |-> NoneVal,
     backend |-> "up"]

\* a variant of add that derives both seeded entries from the new member's
\* friends and enemies
add_mirrored(g, char) ==
    IF InSeq(char, g.members) THEN g
    ELSE LET old == SeqToSet(g.members)
             row == [c \in old |-> SeedEmotion(g.characters[char], c)]
         IN [g EXCEPT
               !.members = Append(@, char),
               !.emotions = [x \in (DOMAIN @) \cup {char} |->
                               IF x = char THEN row
                               ELSE IF x \in old
                                    THEN Put(@[x], char, SeedEmotion(g.characters[char], x))
                                    ELSE @[x]]]

\* a variant of add that seeds only the new member's own attitudes
add_own_row_only(g, char) ==
    IF InSeq(char, g.members) THEN g
    ELSE LET old == SeqToSet(g.members)
             row == [c \in old |-> SeedEmotion(g.characters[char], c)]
         IN [g EXCEPT
               !.members = Append(@, char),
               !.emotions = [x \in (DOMAIN @) \cup {char} |->
                               IF x = char THEN row ELSE @[x]]]

\* a variant of add without the early return for a present actor
add_again(g, char) ==
    LET old == SeqToSet(g.members) \ {char}
        row == [c \in old |-> SeedEmotion(g.characters[char], c)]
    IN [g EXCEPT
          !.members = Append(@, char),
          !.emotions = [x \in (DOMAIN @) \cup {char} |->
                          IF x = char THEN row
                          ELSE IF x \in old
                               THEN Put(@[x], char, SeedEmotion(g.characters[x], char))
                               ELSE @[x]]]

add(g, char) ==
    IF InSeq(char, g.members) THEN g
    ELSE LET old == SeqToSet(g.members)
             row == [c \in old |-> SeedEmotion(g.characters[char], c)]
         IN [g EXCEPT
               !.members = Append(@, char),
               !.emotions = [x \in (DOMAIN @) \cup {char} |->
                               IF x = char THEN row
                               ELSE IF x \in old
                                    THEN Put(@[x], char, SeedEmotion(g.characters[x], char))
                                    ELSE @[x]]]

\* add(char) for a Character object that is not the one the game holds under
\* that name: membership is decided by name (Character.__eq__), and once appended
\* obj is the member
add_object(g, char, obj) ==
    IF InSeq(char, g.members) THEN add(g, char)
    ELSE add([g EXCEPT !.characters[char] = obj], char)

\* a variant of remove that deletes the leaving member's own row only
remove_row_only(g, char) ==
    IF ~InSeq(char, g.members) THEN g
    ELSE [g EXCEPT !.members = ListRemove(g.members, char),
                   !.emotions = [x \in (DOMAIN @) \ {char} |-> @[x]]]

remove(g, char) ==
    IF ~InSeq(char, g.members) THEN g
    ELSE LET rest == ListRemove(g.members, char)
         IN [g EXCEPT
               !.members = rest,
               !.emotions = [x \in (DOMAIN @) \ {char} |->
                               IF x \in SeqToSet(rest) /\ char \in DOMAIN @[x]
                               THEN Del(@[x], char)
                               ELSE @[x]]]

\* the emotions update_mood tallies: every attitude entry, then the
\* current_emotion of every member
AttitudeEntries(g) ==
    UNION {{<<a, b>> : b \in DOMAIN g.emotions[a]} : a \in DOMAIN g.emotions}

Tally(g, e) ==
    Cardinality({p \in AttitudeEntries(g) : g.emotions[p[1]][p[2]] = e})
    + Cardinality({i \in 1..Len(g.members) :
                    g.characters[g.members[i]].current_emotion = e})

\* general_mood[e] is the share cnt/total, kept as the pair <<cnt, total>>
update_mood(g) ==
    LET tallied == {g.emotions[p[1]][p[2]] : p \in AttitudeEntries(g)}
                   \cup {g.characters[c].current_emotion : c \in SeqToSet(g.members)}
        sum == Cardinality(AttitudeEntries(g)) + Len(g.members)
        total == IF sum > 0 THEN sum ELSE 1
    IN [g EXCEPT !.general_mood = [e \in tallied |-> <<Tally(g, e), total>>]]

\* max(self.general_mood.items(), key=share): the first entry with the largest
\* share in the dict's insertion order, which general_mood does not keep here;
\* the operator gives every entry with the largest share
get_dominant_mood(g) ==
    IF DOMAIN g.general_mood = {} THEN {"NEUTRAL"}
    ELSE {e \in DOMAIN g.general_mood :
            \A f \in DOMAIN g.general_mood : g.general_mood[f][1] <= g.general_mood[e][1]}

\* a variant of set_current_day that starts the day with an empty log
set_current_day_clears(g, day_id) ==
    [g EXCEPT !.current_day = day_id,
              !.conversation_history = Put(@, day_id, <<>>)]

set_current_day(g, day_id) ==
    [g EXCEPT !.current_day = day_id,
              !.conversation_history =
                  IF day_id \notin DOMAIN @ THEN Put(@, day_id, <<>>) ELSE @]

(***************************************************************************)
(* Group.apply_line, step by step.                                         *)
(***************************************************************************)
IsActive(d, c) == c \in DOMAIN d /\ d[c].is_active

\* the record of one apply_line invocation
Call(speaker, line, addressed_to, depth) ==
    [speaker |-> speaker, text |-> line, addressed_to |-> addressed_to,
     depth |-> depth,
     ran |-> FALSE,          \* the speaker was a member: the call did something
     emotion |-> NoneVal,    \* the speaker's current_emotion after step 2
     before |-> 0,           \* tension on entry
     preclamp |-> 0,         \* tension + impact, before the clamp of step 3
     offended |-> FALSE,     \* is_offended_by returned True
     asked |-> {},           \* the delegates asked for a reply: "auto", "human"
     reply |-> ""]           \* the reply obtained

dialogue_entry(g, speaker, line, addressed_to) ==
    [type |-> "dialogue",
     speaker |-> speaker,
     text |-> line,
     emotion |-> g.characters[speaker].current_emotion,
     addressed_to |-> addressed_to]

\* a variant of lines 172-201 without the clamp of line 178
ApplySpeak_unclamped(g, speaker, line, addressed_to, emotion, depth) ==
    LET chs == IF emotion # NoneVal
               THEN [g.characters EXCEPT ![speaker] = set_emotion(@, emotion)]
               ELSE g.characters
        g1 == [g EXCEPT !.characters = chs]
        cur == chs[speaker].current_emotion
        raw == g.tension + get_tension_impact(cur)
        entry == dialogue_entry(g1, speaker, line, addressed_to)
        log == IF g.current_day \notin DOMAIN g.conversation_history
               THEN Put(g.conversation_history, g.current_day, <<>>)
               ELSE g.conversation_history
    IN [g1 EXCEPT
          !.tension = raw,
          !.conversation_history = [log EXCEPT ![g.current_day] = Append(@, entry)],
          !.chatbots = [c \in DOMAIN @ |->
                           IF @[c].is_active THEN Chatbot_add_to_history(@[c], entry)
                           ELSE @[c]],
          !.calls = Append(@, [Call(speaker, line, addressed_to, depth) EXCEPT
                                  !.ran = TRUE, !.emotion = cur,
                                  !.before = g.tension, !.preclamp = raw])]

\* lines 172-201: speaker emotion, tension, global log, active chatbots
ApplySpeak(g, speaker, line, addressed_to, emotion, depth) ==
    LET chs == IF emotion # NoneVal
               THEN [g.characters EXCEPT ![speaker] = set_emotion(@, emotion)]
               ELSE g.characters
        g1 == [g EXCEPT !.characters = chs]
        cur == chs[speaker].current_emotion
        raw == g.tension + get_tension_impact(cur)
        entry == dialogue_entry(g1, speaker, line, addressed_to)
        log == IF g.current_day \notin DOMAIN g.conversation_history
               THEN Put(g.conversation_history, g.current_day, <<>>)
               ELSE g.conversation_history
    IN [g1 EXCEPT
          !.tension = Max(TensionMin, Min(TensionMax, raw)),
          !.conversation_history = [log EXCEPT ![g.current_day] = Append(@, entry)],
          !.chatbots = [c \in DOMAIN @ |->
                           IF @[c].is_active THEN Chatbot_add_to_history(@[c], entry)
                           ELSE @[c]],
          !.calls = Append(@, [Call(speaker, line, addressed_to, depth) EXCEPT
                                  !.ran = TRUE, !.emotion = cur,
                                  !.before = g.tension, !.preclamp = raw])]

\* a variant of lines 205-209 in which the attitude changes in both directions
ApplyAttitude_mutual(g, speaker, addressed_to) ==
    LET cat == get_category(g.characters[speaker].current_emotion)
    IN IF cat = "positive"
       THEN [g EXCEPT !.emotions[addressed_to] = Put(@, speaker, "FRIENDLY"),
                      !.emotions[speaker] = Put(@, addressed_to, "FRIENDLY")]
       ELSE IF cat = "negative"
       THEN [g EXCEPT !.emotions[addressed_to] = Put(@, speaker, "HOSTILE"),
                      !.emotions[speaker] = Put(@, addressed_to, "HOSTILE")]
       ELSE g

\* lines 205-209: the addressee's attitude towards the speaker
ApplyAttitude(g, speaker, addressed_to) ==
    LET cat == get_category(g.characters[speaker].current_emotion)
    IN IF cat = "positive"
       THEN [g EXCEPT !.emotions[addressed_to] = Put(@, speaker, "FRIENDLY")]
       ELSE IF cat = "negative"
       THEN [g EXCEPT !.emotions[addressed_to] = Put(@, speaker, "HOSTILE")]
       ELSE g

\* a variant of lines 211-215 without the clamp of line 215
ApplyOffence_unclamped(g, speaker, addressed_to, idx) ==
    {IF off
     THEN [g EXCEPT !.tension = @ + OffenceBump,
                    !.calls[idx].offended = TRUE]
     ELSE g :
        off \in is_offended_by(addressed_to, g.characters[addressed_to], speaker,
                               g.characters[speaker].current_emotion)}

\* lines 211-215: the offence bump, for each result of is_offended_by
ApplyOffence(g, speaker, addressed_to, idx) ==
    {IF off
     THEN [g EXCEPT !.tension = Min(TensionMax, @ + OffenceBump),
                    !.calls[idx].offended = TRUE]
     ELSE g :
        off \in is_offended_by(addressed_to, g.characters[addressed_to], speaker,
                               g.characters[speaker].current_emotion)}

\* a variant of lines 237-243 in which nobody reacts
ApplyReactions_mood_only(g, speaker) == update_mood(g)

\* a variant of lines 237-243 in which every other member also takes on the
\* speaker's emotion
ApplyReactions_contagious(g, speaker) ==
    update_mood([g EXCEPT !.characters =
        [c \in Actors |->
            IF InSeq(c, g.members) /\ c # speaker
            THEN set_emotion(react_to_emotion(@[c], speaker, @[speaker].current_emotion),
                             @[speaker].current_emotion)
            ELSE @[c]]])

\* lines 237-243: every other member reacts, then the mood is recomputed
ApplyReactions(g, speaker) ==
    update_mood([g EXCEPT !.characters =
        [c \in Actors |->
            IF InSeq(c, g.members) /\ c # speaker
            THEN react_to_emotion(@[c], speaker, @[speaker].current_emotion)
            ELSE @[c]]])

\* what follows a nested apply_line: an exception propagates, skipping the rest
AfterReply(g, speaker) == IF g.err # "none" THEN g ELSE ApplyReactions(g, speaker)

RECURSIVE apply_line(_, _, _, _, _, _)

\* a variant of lines 217-235 that asks the user control first
ApplyReply_human_first(g, speaker, addressed_to, idx, depth) ==
    IF IsActive(g.user_controls, addressed_to)
    THEN UNION {
           LET g1 == [g EXCEPT !.calls[idx].asked = @ \cup {"human"},
                               !.calls[idx].reply = response]
           IN IF response # ""
              THEN {AfterReply(h, speaker) :
                      h \in apply_line(g1, addressed_to, response, speaker,
                                       g1.characters[addressed_to].current_emotion,
                                       depth + 1)}
              ELSE {ApplyReactions(g1, speaker)} :
           response \in handle_addressed(g.user_controls[addressed_to])}
    ELSE IF IsActive(g.chatbots, addressed_to)
    THEN UNION {
           LET g1 == [g EXCEPT !.calls[idx].asked = @ \cup {"auto"},
                               !.calls[idx].reply = response]
           IN IF response # ""
              THEN {AfterReply(h, speaker) :
                      h \in apply_line(g1, addressed_to, response, speaker,
                                       g1.characters[addressed_to].current_emotion,
                                       depth + 1)}
              ELSE {ApplyReactions(g1, speaker)} :
           response \in generate_response(g.chatbots[addressed_to], g.backend)}
    ELSE {ApplyReactions(g, speaker)}

\* lines 217-235: the reply of the addressee's delegate
ApplyReply(g, speaker, addressed_to, idx, depth) ==
    IF IsActive(g.chatbots, addressed_to)
    THEN UNION {
           LET g1 == [g EXCEPT !.calls[idx].asked = @ \cup {"auto"},
                               !.calls[idx].reply = response]
           IN IF response # ""
              THEN {AfterReply(h, speaker) :
                      h \in apply_line(g1, addressed_to, response, speaker,
                                       g1.characters[addressed_to].current_emotion,
                                       depth + 1)}
              ELSE {ApplyReactions(g1, speaker)} :
           response \in generate_response(g.chatbots[addressed_to], g.backend)}
    ELSE IF IsActive(g.user_controls, addressed_to)
    THEN UNION {
           LET g1 == [g EXCEPT !.calls[idx].asked = @ \cup {"human"},
                               !.calls[idx].reply = response]
           IN IF response # ""
              THEN {AfterReply(h, speaker) :
                      h \in apply_line(g1, addressed_to, response, speaker,
                                       g1.characters[addressed_to].current_emotion,
                                       depth + 1)}
              ELSE {ApplyReactions(g1, speaker)} :
           response \in handle_addressed(g.user_controls[addressed_to])}
    ELSE {ApplyReactions(g, speaker)}

\* a variant of apply_line that sets the speaker's emotion before it looks
\* for the speaker among the members
apply_line_emotion_first(g, speaker, line, addressed_to, emotion, depth) ==
    IF depth >= RecursionLimit
    THEN {[g EXCEPT !.err = "RecursionError"]}
    ELSE IF ~InSeq(speaker, g.members)
    THEN {[g EXCEPT !.calls = Append(@, Call(speaker, line, addressed_to, depth)),
                    !.characters[speaker] =
                        IF emotion # NoneVal THEN set_emotion(@, emotion) ELSE @]}
    ELSE LET g1 == ApplySpeak(g, speaker, line, addressed_to, emotion, depth)
             idx == Len(g1.calls)
         IN IF addressed_to # NoneVal /\ InSeq(addressed_to, g1.members)
            THEN UNION {ApplyReply(g3, speaker, addressed_to, idx, depth) :
                          g3 \in ApplyOffence(ApplyAttitude(g1, speaker, addressed_to),
                                              speaker, addressed_to, idx)}
            ELSE {ApplyReactions(g1, speaker)}

\* a variant of apply_line that does not look for the speaker among the members
apply_line_ungated(g, speaker, line, addressed_to, emotion, depth) ==
    IF depth >= RecursionLimit
    THEN {[g EXCEPT !.err = "RecursionError"]}
    ELSE LET g1 == ApplySpeak(g, speaker, line, addressed_to, emotion, depth)
             idx == Len(g1.calls)
         IN IF addressed_to # NoneVal /\ InSeq(addressed_to, g1.members)
            THEN UNION {ApplyReply(g3, speaker, addressed_to, idx, depth) :
                          g3 \in ApplyOffence(ApplyAttitude(g1, speaker, addressed_to),
                                              speaker, addressed_to, idx)}
            ELSE {ApplyReactions(g1, speaker)}

\* the set of Group values apply_line can leave; depth counts the enclosing
\* apply_line frames
apply_line(g, speaker, line, addressed_to, emotion, depth) ==
    IF depth >= RecursionLimit
    THEN {[g EXCEPT !.err = "RecursionError"]}
    ELSE IF ~InSeq(speaker, g.members)
    THEN {[g EXCEPT !.calls = Append(@, Call(speaker, line, addressed_to, depth))]}
    ELSE LET g1 == ApplySpeak(g, speaker, line, addressed_to, emotion, depth)
             idx == Len(g1.calls)
         IN IF addressed_to # NoneVal /\ InSeq(addressed_to, g1.members)
            THEN UNION {ApplyReply(g3, speaker, addressed_to, idx, depth) :
                          g3 \in ApplyOffence(ApplyAttitude(g1, speaker, addressed_to),
                                              speaker, addressed_to, idx)}
            ELSE {ApplyReactions(g1, speaker)}

(***************************************************************************)
(* Event.apply: src/event.py.  One operator per event type, each giving    *)
(* the set of Group values the event can leave.                            *)
(***************************************************************************)
\* a target is absent, one Character, or a list of Characters
NoTarget == [kind |-> "none", who |-> <<>>]

One(c) == [kind |-> "one", who |-> <<c>>]

List(cs) == [kind |-> "list", who |-> cs]

\* Python truthiness of the target: None and [] are false
Truthy(target) == target.who # <<>>

\* the payload's "emotion": absent (None) or a str
NoMood == [given |-> FALSE, chars |-> <<>>]

Mood(chars) == [given |-> TRUE, chars |-> chars]

\* Emotion.from_string(emotion) if isinstance(emotion, str) else emotion
PayloadEmotion(mood) == IF mood.given THEN from_string(mood.chars) ELSE NoneVal

system_entry ==
    [type |-> "dialogue", speaker |-> "System", text |-> "You are being addressed by",
     emotion |-> NoneVal, addressed_to |-> NoneVal]

\* for target in addressed_to: group.apply_line(speaker, line, target, emotion);
\* an exception ends the loop
RECURSIVE apply_each(_, _, _, _, _)
apply_each(g, speaker, line, targets, emotion) ==
    IF targets = <<>> \/ g.err # "none" THEN {g}
    ELSE UNION {apply_each(h, speaker, line, Tail(targets), emotion) :
                  h \in apply_line(g, speaker, line, Head(targets), emotion, 0)}

\* lines 118-168: the speaker's chatbot is active
DialogueAI(g, speaker, addressed_to, emotion) ==
    LET g1 == IF Truthy(addressed_to)
              THEN [g EXCEPT !.chatbots[speaker] = Chatbot_add_to_history(@, system_entry)]
              ELSE g
    IN UNION {
         LET g2 == [g1 EXCEPT !.produced = ai_response]
         IN IF addressed_to.kind = "list"
            THEN apply_each(g2, speaker, ai_response, addressed_to.who, emotion)
            ELSE IF Truthy(addressed_to)
            THEN apply_line(g2, speaker, ai_response, addressed_to.who[1], emotion, 0)
            ELSE {g2} :
         ai_response \in generate_response(g1.chatbots[speaker], g1.backend)}

\* lines 170-192: the speaker's user control is active (the scripted line is used)
DialogueUser(g, speaker, addressed_to, text, emotion) ==
    IF addressed_to.kind = "list"
    THEN apply_each(g, speaker, text, addressed_to.who, emotion)
    ELSE IF Truthy(addressed_to)
    THEN apply_line(g, speaker, text, addressed_to.who[1], emotion, 0)
    ELSE {g}

\* a variant of lines 193-211 that applies the line to the first target only
DialogueScripted_first_only(g, speaker, addressed_to, text, emotion) ==
    apply_line(g, speaker, text,
               IF Truthy(addressed_to) THEN addressed_to.who[1] ELSE NoneVal,
               emotion, 0)

\* lines 193-211: the speaker is not under control
DialogueScripted(g, speaker, addressed_to, text, emotion) ==
    IF addressed_to.kind = "list"
    THEN apply_each(g, speaker, text, addressed_to.who, emotion)
    ELSE apply_line(g, speaker, text,
                    IF addressed_to.kind = "one" THEN addressed_to.who[1] ELSE NoneVal,
                    emotion, 0)

\* a variant of the control mode that looks for the user control first
ControlMode_human_first(g, speaker) ==
    IF IsActive(g.user_controls, speaker) THEN "user"
    ELSE IF IsActive(g.chatbots, speaker) THEN "ai"
    ELSE "script"

\* the control mode lines 109-118 find for the speaker
ControlMode(g, speaker) ==
    IF IsActive(g.chatbots, speaker) THEN "ai"
    ELSE IF IsActive(g.user_controls, speaker) THEN "user"
    ELSE "script"

EventDialogue(g, speaker, addressed_to, text, mood) ==
    LET emotion == PayloadEmotion(mood)
        mode == ControlMode(g, speaker)
    IN IF mode = "ai" THEN DialogueAI(g, speaker, addressed_to, emotion)
       ELSE IF mode = "user" THEN DialogueUser(g, speaker, addressed_to, text, emotion)
       ELSE DialogueScripted(g, speaker, addressed_to, text, emotion)

\* a variant of DAY_START in which the new day calms the group
EventDayStart_calms(g) == [g EXCEPT !.tension = 0]

\* lines 93-96: the two day events only print
EventDayStart(g) == g

EventDayEnd(g) == g

\* lines 220-224: prints the payload, with the actor's name if there is one
EventEnvironmentChange(g, actor) == g

EventEnter(g, actor) == add(g, actor)

\* an ENTER event whose actor is a newly constructed Character of that name
EventEnterFresh(g, actor) == add_object(g, actor, Character(actor))

\* a variant of LEAVE that returns the leaver to the script
EventLeave_releases(g, actor) ==
    [remove(g, actor) EXCEPT
       !.chatbots = IF actor \in DOMAIN @ THEN [@ EXCEPT ![actor] = deactivate(@)] ELSE @,
       !.user_controls =
           IF actor \in DOMAIN @ THEN [@ EXCEPT ![actor] = deactivate(@)] ELSE @]

EventLeave(g, actor) == remove(g, actor)

\* a variant of OFFENDED that makes the target hostile toward the actor
EventOffended_reversed(g, actor, target) ==
    IF InSeq(actor, g.members) /\ InSeq(target, g.members)
    THEN update_mood([g EXCEPT !.emotions[target] = Put(@, actor, "HOSTILE")])
    ELSE g

EventOffended(g, actor, target) ==
    IF InSeq(actor, g.members) /\ InSeq(target, g.members)
    THEN update_mood([g EXCEPT !.emotions[actor] = Put(@, target, "HOSTILE")])
    ELSE g

\* lines 256-274: every present character, whatever the event's actor; the
\* constructor call Chatbot(character, group=group) of line 266 passes a keyword
\* Chatbot.__init__ does not take, so it raises TypeError
RECURSIVE ai_assume_control(_, _)
ai_assume_control(g, present_characters) ==
    IF present_characters = <<>> THEN g
    ELSE LET character == Head(present_characters)
         IN IF character \notin DOMAIN g.chatbots
            THEN [g EXCEPT !.err = "TypeError"]
            ELSE ai_assume_control([g EXCEPT !.chatbots[character] = activate(@)],
                                   Tail(present_characters))

\* lines 276-419 (the pre-generated conversation written to a file when the
\* payload carries write_to) change no state of the group; the file is read by
\* Game.run_day, see RunDayStep
EventAIAssumeControl(g, actor) == ai_assume_control(g, g.members)

\* a variant of USER_ASSUME_CONTROL that always constructs a new UserControl
EventUserAssumeControl_replaces(g, actor) ==
    [g EXCEPT !.user_controls = Put(@, actor, activate(NewUserControl))]

EventUserAssumeControl(g, actor) ==
    LET ucs == IF actor \notin DOMAIN g.user_controls
               THEN Put(g.user_controls, actor, NewUserControl)
               ELSE g.user_controls
    IN [g EXCEPT !.user_controls = [ucs EXCEPT ![actor] = activate(@)]]

\* a variant of RETURN_TO_SCRIPT that deactivates the chatbot only
EventReturnToScript_chatbot_only(g, actor) ==
    [g EXCEPT
       !.chatbots = IF actor \in DOMAIN @ THEN [@ EXCEPT ![actor] = deactivate(@)] ELSE @]

\* a variant of RETURN_TO_SCRIPT that looks the delegates up without testing
\* that they are registered
EventReturnToScript_unchecked(g, actor) ==
    IF actor \notin DOMAIN g.chatbots \/ actor \notin DOMAIN g.user_controls
    THEN [g EXCEPT !.err = "KeyError"]
    ELSE [g EXCEPT !.chatbots[actor] = deactivate(@),
                   !.user_controls[actor] = deactivate(@)]

EventReturnToScript(g, actor) ==
    [g EXCEPT
       !.chatbots = IF actor \in DOMAIN @ THEN [@ EXCEPT ![actor] = deactivate(@)] ELSE @,
       !.user_controls =
           IF actor \in DOMAIN @ THEN [@ EXCEPT ![actor] = deactivate(@)] ELSE @]

\* client code storing Chatbot(character) objects in group.chatbots, as
\* Game.initialize_chatbots does for the characters of the game
register_chatbots(g, cs) ==
    [g EXCEPT !.chatbots = [c \in (DOMAIN @) \cup cs |->
                               IF c \in cs THEN NewChatbot ELSE @[c]]]

(***************************************************************************)
(* The state machine.                                                      *)
(***************************************************************************)
VARIABLES
    members,               \* Group.members
    emotions,              \* Group.emotions
    tension,               \* Group.tension
    general_mood,          \* Group.general_mood
    chatbots,              \* Group.chatbots
    user_controls,         \* Group.user_controls
    conversation_history,  \* Group.conversation_history
    current_day,           \* Group.current_day
    characters,            \* the Character objects: current_emotion, friends, enemies
    calls,                 \* the apply_line invocations of the last operation
    err,                   \* the exception the last operation raised, or "none"
    produced,              \* the line the speaker's delegate produced in the last event
    last,                  \* the last operation and its arguments
    nEvents,               \* operations applied so far
    prev,                  \* the Group as the last step found it
    recorded,              \* every entry handed to add_to_history of the stand-alone
                           \* delegates of SpecHistory, per delegate, in call order
    parsed,                \* the last string handed to Emotion.from_string, the
                           \* Emotion it spells (or "None") and the result
    day                    \* the day being played: the script entries, the loaded
                           \* events, the position, and where its driver stands

vars == <<members, emotions, tension, general_mood, chatbots, user_controls,
          conversation_history, current_day, characters, calls, err, produced, last,
          nEvents, prev, recorded, parsed, day>>

\* the Group as the next operation finds it
Group ==
    [members |-> members, emotions |-> emotions, tension |-> tension,
     general_mood |-> general_mood, chatbots |-> chatbots,
     user_controls |-> user_controls, conversation_history |-> conversation_history,
     current_day |-> current_day, characters |-> characters,
     calls |-> <<>>, err |-> "none", produced |-> NoneVal, backend |-> "up"]

CommitWith(g, op, d) ==
    /\ members' = g.members
    /\ emotions' = g.emotions
    /\ tension' = g.tension
    /\ general_mood' = g.general_mood
    /\ chatbots' = g.chatbots
    /\ user_controls' = g.user_controls
    /\ conversation_history' = g.conversation_history
    /\ current_day' = g.current_day
    /\ characters' = g.characters
    /\ calls' = g.calls
    /\ err' = g.err
    /\ produced' = g.produced
    /\ last' = op
    /\ nEvents' = nEvents + 1
    /\ prev' = Group
    /\ recorded' = recorded
    /\ parsed' = parsed
    /\ day' = d

\* an operation outside a day that is being played
Commit(g, op) == CommitWith(g, op, day)

Op(name, actor, target, text, mode) ==
    [op |-> name, actor |-> actor, target |-> target, text |-> text, mode |-> mode]

\* <<members, characters with a chatbot>> when the first event is applied:
\* Group() and Group([A, B, C]), and before the first event client code may have
\* stored one Chatbot per character in group.chatbots (what
\* Game.initialize_chatbots is written to do)
InitialSetups == {<<<<>>, {}>>, <<<<"A", "B", "C">>, {}>>, <<<<"A", "B", "C">>, Actors>>}

DayIds == {"day-01", "day-02"}

\* <<speaker, target>> of the dialogue events: friends (A, B) in both
\* directions, an enemy (C to A), a speaker addressing itself, list targets and
\* no target
Addresses ==
    {<<"A", NoTarget>>, <<"A", One("B")>>, <<"B", One("A")>>, <<"C", One("A")>>,
     <<"B", One("B")>>, <<"A", List(<<"B", "C">>)>>, <<"B", List(<<>>)>>}

\* the mood of a dialogue event: none, a negative and a positive one (the
\* direct apply_line calls below bring the complex and the neutral ones)
Moods == {NoMood, Mood(<<"a", "n", "g", "r", "y">>), Mood(<<"F", "l", "i", "r", "t", "y">>)}

\* the actors of which a second Character object of the same name enters
FreshActors == {"A"}

\* <<actor, target>> of the offended events
Offences == {<<"A", "B">>, <<"B", "C">>, <<"C", "A">>, <<"C", "C">>}

\* <<speaker, addressed_to, emotion>> of the direct apply_line calls
DirectLines ==
    {<<"A", NoneVal, "ANXIOUS">>, <<"A", "B", NoneVal>>, <<"B", "C", "ANXIOUS">>,
     <<"C", "A", "ADMIRATION">>, <<"B", "A", "DEFENSIVE">>}

NothingRecorded == [chatbot |-> <<>>, user_control |-> <<>>]

NothingParsed == [text |-> <<>>, spells |-> NoneVal, emotion |-> NoneVal]

\* no day is being played
NoDay ==
    [entries |-> <<>>, events |-> <<>>, index |-> 0, applied |-> <<>>, pc |-> "none",
     snapshot |-> NoneVal, steps |-> 0]

\* the state in which the first operation finds Group g, with the string to
\* parse and the day to play
StartWith(g, text, script) ==
    /\ members = g.members
    /\ emotions = g.emotions
    /\ tension = g.tension
    /\ general_mood = g.general_mood
    /\ chatbots = g.chatbots
    /\ user_controls = g.user_controls
    /\ conversation_history = g.conversation_history
    /\ current_day = g.current_day
    /\ characters = g.characters
    /\ calls = <<>>
    /\ err = "none"
    /\ produced = NoneVal
    /\ last = Op("init", NoneVal, NoTarget, "", "script")
    /\ nEvents = 0
    /\ prev = g
    /\ recorded = NothingRecorded
    /\ parsed = text
    /\ day = script

\* the state in which the first operation finds Group g
Start(g) == StartWith(g, NothingParsed, NoDay)

Setup(setup) == register_chatbots(NewGroup(setup[1]), setup[2])

Init == \E setup \in InitialSetups : Start(Setup(setup))

Dialogue ==
    /\ nEvents < MaxEvents
    /\ \E address \in Addresses, mood \in Moods, backend \in Backends :
         \E g \in EventDialogue([Group EXCEPT !.backend = backend], address[1],
                                address[2], "scripted", mood) :
            Commit(g, Op("dialogue", address[1], address[2], "scripted",
                         ControlMode(Group, address[1])))

ApplyLineCall ==
    /\ nEvents < MaxEvents
    /\ \E line \in DirectLines, backend \in Backends :
         \E g \in apply_line([Group EXCEPT !.backend = backend], line[1], "line",
                             line[2], line[3], 0) :
            Commit(g, Op("apply_line", line[1],
                         IF line[2] = NoneVal THEN NoTarget ELSE One(line[2]),
                         "line", ControlMode(Group, line[1])))

Enter ==
    /\ nEvents < MaxEvents
    /\ \/ \E actor \in Actors :
            Commit(EventEnter(Group, actor), Op("enter", actor, NoTarget, "", "script"))
       \/ \E actor \in FreshActors :
            Commit(EventEnterFresh(Group, actor),
                   Op("enter", actor, NoTarget, "fresh", "script"))

DayStart ==
    /\ nEvents < MaxEvents
    /\ Commit(EventDayStart(Group), Op("day_start", NoneVal, NoTarget, "", "script"))

DayEnd ==
    /\ nEvents < MaxEvents
    /\ Commit(EventDayEnd(Group), Op("day_end", NoneVal, NoTarget, "", "script"))

EnvironmentChange ==
    /\ nEvents < MaxEvents
    /\ \E actor \in {NoneVal, "A"} :
         Commit(EventEnvironmentChange(Group, actor),
                Op("environment_change", actor, NoTarget, "", "script"))

Leave ==
    /\ nEvents < MaxEvents
    /\ \E actor \in Actors :
         Commit(EventLeave(Group, actor), Op("leave", actor, NoTarget, "", "script"))

Offended ==
    /\ nEvents < MaxEvents
    /\ \E offence \in Offences :
         Commit(EventOffended(Group, offence[1], offence[2]),
                Op("offended", offence[1], One(offence[2]), "", "script"))

AIAssumeControl ==
    /\ nEvents < MaxEvents
    /\ \E actor \in Actors \cup {NoneVal} :
         Commit(EventAIAssumeControl(Group, actor),
                Op("ai_assume_control", actor, NoTarget, "", "script"))

UserAssumeControl ==
    /\ nEvents < MaxEvents
    /\ \E actor \in Actors :
         Commit(EventUserAssumeControl(Group, actor),
                Op("user_assume_control", actor, NoTarget, "", "script"))

ReturnToScript ==
    /\ nEvents < MaxEvents
    /\ \E actor \in Actors :
         Commit(EventReturnToScript(Group, actor),
                Op("return_to_script", actor, NoTarget, "", "script"))

SetCurrentDay ==
    /\ nEvents < MaxEvents
    /\ \E day_id \in DayIds :
         Commit(set_current_day(Group, day_id),
                Op("set_current_day", NoneVal, NoTarget, day_id, "script"))

Next ==
    \/ AIAssumeControl
    \/ UserAssumeControl
    \/ ReturnToScript
    \/ Enter
    \/ Leave
    \/ Offended
    \/ SetCurrentDay
    \/ DayStart
    \/ DayEnd
    \/ EnvironmentChange
    \/ Dialogue
    \/ ApplyLineCall

Spec == Init /\ [][Next]_vars

(***************************************************************************)
(* SpecTension: the same operations, started from an empty Group or from   *)
(* the full Group with registered chatbots that a long                     *)
(* scripted quarrel has brought close to the top of the tension range:     *)
(* TensePrefix dialogue events in which A speaks angrily to nobody.        *)
(***************************************************************************)
TensePrefix == 49

RECURSIVE AfterQuarrel(_, _)
AfterQuarrel(g, n) ==
    IF n = 0 \/ g.err # "none" THEN g
    ELSE AfterQuarrel(
           CHOOSE h \in EventDialogue([g EXCEPT !.calls = <<>>], "A", NoTarget, "scripted",
                                      Mood(<<"a", "n", "g", "r", "y">>)) : TRUE,
           n - 1)

InitTension ==
    \/ Start(Setup(<<<<>>, {}>>))
    \/ Start(AfterQuarrel(Setup(<<<<"A", "B", "C">>, Actors>>), TensePrefix))

SpecTension == InitTension /\ [][Next]_vars

(***************************************************************************)
(* SpecHistory: a stand-alone Chatbot and a stand-alone UserControl, as    *)
(* the examples create them, to which client code hands one entry after    *)
(* the other.  The n-th entry handed to a delegate carries n as its text.  *)
(***************************************************************************)
MaxRecorded == 23

HistoryEntry(n) ==
    [type |-> "dialogue", speaker |-> "B", text |-> n, emotion |-> NoneVal,
     addressed_to |-> NoneVal]

InitHistory ==
    Start([NewGroup(<<>>) EXCEPT !.chatbots = Put(@, "A", NewChatbot),
                                 !.user_controls = Put(@, "A", NewUserControl)])

ChatbotRecord ==
    /\ Len(recorded.chatbot) < MaxRecorded
    /\ LET entry == HistoryEntry(Len(recorded.chatbot) + 1)
       IN /\ chatbots' = [chatbots EXCEPT !["A"] = Chatbot_add_to_history(@, entry)]
          /\ recorded' = [recorded EXCEPT !.chatbot = Append(@, entry)]
    /\ UNCHANGED <<members, emotions, tension, general_mood, user_controls,
                   conversation_history, current_day, characters, calls, err, produced,
                   last, nEvents, parsed, day>>
    /\ prev' = Group

UserControlRecord ==
    /\ Len(recorded.user_control) < MaxRecorded
    /\ LET entry == HistoryEntry(Len(recorded.user_control) + 1)
       IN /\ user_controls' =
                [user_controls EXCEPT !["A"] = UserControl_add_to_history(@, entry)]
          /\ recorded' = [recorded EXCEPT !.user_control = Append(@, entry)]
    /\ UNCHANGED <<members, emotions, tension, general_mood, chatbots,
                   conversation_history, current_day, characters, calls, err, produced,
                   last, nEvents, parsed, day>>
    /\ prev' = Group

NextHistory ==
    \/ ChatbotRecord
    \/ UserControlRecord

SpecHistory == InitHistory /\ [][NextHistory]_vars

(***************************************************************************)
(* SpecDelegates: the stand-alone delegates of SpecHistory stored in the   *)
(* group under A, with the control events that reach them in between the   *)
(* add_to_history calls.                                                   *)
(***************************************************************************)
NextDelegates ==
    \/ ChatbotRecord
    \/ UserControlRecord
    \/ UserAssumeControl
    \/ ReturnToScript

SpecDelegates == InitHistory /\ [][NextDelegates]_vars

(***************************************************************************)
(* Game.load_day: src/game.py.  A script is a sequence of entries          *)
(* [event_type, character, to, mood, write_to]; character is a name or     *)
(* "None" (no such field), to is the "to" or "target" field: absent, one   *)
(* name or a list of names.                                                *)
(***************************************************************************)
\* constants.py: the canonical names and the aliases
CHARACTERS == Actors

ALIASES == [alias \in {"Al"} |-> "A"]

resolve_character(name) ==
    IF name \in CHARACTERS THEN name
    ELSE IF name \in DOMAIN ALIASES THEN ALIASES[name]
    ELSE NoneVal

\* Game.characters: every canonical name is initialised, in this order
GameCharacters == <<"A", "B", "C">>

\* the names of a list that resolve to a character of the game, resolved
RECURSIVE resolve_all(_)
resolve_all(names) ==
    IF names = <<>> THEN <<>>
    ELSE LET target_canonical == resolve_character(Head(names))
         IN IF target_canonical # NoneVal /\ InSeq(target_canonical, GameCharacters)
            THEN <<target_canonical>> \o resolve_all(Tail(names))
            ELSE resolve_all(Tail(names))

\* lines 359-372 (and 303-309 for "target"): None unless the field is given
\* and resolves; a list keeps the names that resolve
resolve_target(to) ==
    IF ~Truthy(to) THEN NoTarget
    ELSE IF to.kind = "list" THEN List(resolve_all(to.who))
    ELSE IF resolve_all(to.who) = <<>> THEN NoTarget
    ELSE One(resolve_all(to.who)[1])

\* the entry names a character in its to/target field that does not resolve
Unresolved(to) == \E i \in DOMAIN to.who : resolve_all(<<to.who[i]>>) = <<>>

\* entry.get("mood", "neutral")
MoodOf(entry) ==
    IF entry.mood.given THEN entry.mood ELSE Mood(<<"n", "e", "u", "t", "r", "a", "l">>)

\* Event(event_type, actor, target, payload), with the position k of the
\* script entry it was made from
NewEvent(event_type, actor, target, entry, k) ==
    [event_type |-> event_type, actor |-> actor, target |-> target,
     text |-> "scripted", mood |-> MoodOf(entry), write_to |-> entry.write_to,
     entry |-> k, unresolved |-> Unresolved(entry.to)]

\* one pass of the loop of lines 248-387: the Event made from entry, if any
load_entry(entry, k) ==
    LET event_type_str == entry.event_type
        char_canonical == resolve_character(entry.character)
    IN IF event_type_str \in {"day_start", "day_end"}
       THEN <<NewEvent(event_type_str, NoneVal, NoTarget, entry, k)>>
       ELSE IF event_type_str = "environment_change"
       THEN <<NewEvent(event_type_str,
                       IF entry.character = NoneVal THEN NoneVal ELSE char_canonical,
                       NoTarget, entry, k)>>
       ELSE IF entry.character = NoneVal \/ char_canonical = NoneVal
       THEN <<>>
       ELSE IF event_type_str \in {"enter", "leave", "ai_assume_control",
                                   "user_assume_control", "return_to_script"}
       THEN <<NewEvent(event_type_str, char_canonical, NoTarget, entry, k)>>
       ELSE IF event_type_str = "offended"
       THEN <<NewEvent(event_type_str, char_canonical,
                       IF entry.to.kind = "one" THEN resolve_target(entry.to)
                       ELSE NoTarget, entry, k)>>
       ELSE IF event_type_str = "dialogue"
       THEN <<NewEvent(event_type_str, char_canonical, resolve_target(entry.to),
                       entry, k)>>
       ELSE <<>>

RECURSIVE load_entries(_, _)
load_entries(entries, k) ==
    IF k > Len(entries) THEN <<>>
    ELSE load_entry(entries[k], k) \o load_entries(entries, k + 1)

load_day(entries) == load_entries(entries, 1)

\* Event.apply(group), by event type
Event_apply(g, ev) ==
    IF ev.event_type = "day_start" THEN {EventDayStart(g)}
    ELSE IF ev.event_type = "day_end" THEN {EventDayEnd(g)}
    ELSE IF ev.event_type = "environment_change"
    THEN {EventEnvironmentChange(g, ev.actor)}
    ELSE IF ev.event_type = "enter" THEN {EventEnter(g, ev.actor)}
    ELSE IF ev.event_type = "leave" THEN {EventLeave(g, ev.actor)}
    ELSE IF ev.event_type = "offended"
    THEN {EventOffended(g, ev.actor,
                        IF ev.target.kind = "one" THEN ev.target.who[1] ELSE NoneVal)}
    ELSE IF ev.event_type = "ai_assume_control" THEN {EventAIAssumeControl(g, ev.actor)}
    ELSE IF ev.event_type = "user_assume_control"
    THEN {EventUserAssumeControl(g, ev.actor)}
    ELSE IF ev.event_type = "return_to_script" THEN {EventReturnToScript(g, ev.actor)}
    ELSE EventDialogue(g, ev.actor, ev.target, ev.text, ev.mood)

\* for event in events: event.apply(group); an exception ends the loop
RECURSIVE apply_events(_, _)
apply_events(g, events) ==
    IF events = <<>> \/ g.err # "none" THEN {g}
    ELSE UNION {apply_events(h, Tail(events)) : h \in Event_apply(g, Head(events))}

\* for character in self.characters.values(): group.add(character)
RECURSIVE add_all(_, _)
add_all(g, cs) == IF cs = <<>> THEN g ELSE add_all(add(g, Head(cs)), Tail(cs))

(***************************************************************************)
(* The scripts of the days that are played: every sequence of DayLen       *)
(* entries out of DayEntries.                                              *)
(***************************************************************************)
DayLen == 3

Entry(event_type, character, to, mood, write_to) ==
    [event_type |-> event_type, character |-> character, to |-> to, mood |-> mood,
     write_to |-> write_to]

\* lines addressed to a member, to an unknown name ("Zeus") and, under an
\* alias, to a list with an unknown name; events with an unknown or missing
\* character; a leave and an offended event; the control events
DayEntries ==
    {Entry("day_start", NoneVal, NoTarget, NoMood, ""),
     Entry("dialogue", "A", One("B"), Mood(<<"a", "n", "g", "r", "y">>), ""),
     Entry("dialogue", "C", One("Zeus"), Mood(<<"F", "l", "i", "r", "t", "y">>), ""),
     Entry("dialogue", "Al", List(<<"Zeus", "B">>), NoMood, ""),
     Entry("dialogue", NoneVal, One("B"), NoMood, ""),
     Entry("enter", "Zeus", NoTarget, NoMood, ""),
     Entry("leave", "B", NoTarget, NoMood, ""),
     Entry("offended", "C", One("Zeus"), NoMood, ""),
     Entry("ai_assume_control", "A", NoTarget, NoMood, ""),
     Entry("ai_assume_control", "A", NoTarget, NoMood, "file")}

DayScripts == [1..DayLen -> DayEntries]

\* the conversations the file named by write_to can hold when run_day reads it
PreGenerated ==
    {<<>>,
     <<Entry("dialogue", "B", One("A"), Mood(<<"c", "a", "l", "m">>), "")>>,
     <<Entry("dialogue", "B", One("Zeus"), Mood(<<"a", "n", "g", "r", "y">>), ""),
       Entry("dialogue", "Zeus", One("A"), NoMood, "")>>}

\* the day before its driver has loaded it
NewDay(script) ==
    [entries |-> script, events |-> <<>>, index |-> 0, applied |-> <<>>, pc |-> "load",
     snapshot |-> NoneVal, steps |-> 0]

\* the operation record of an applied event
EventOp(g, ev) ==
    Op(ev.event_type, ev.actor, ev.target, ev.text,
       IF ev.event_type = "dialogue" THEN ControlMode(g, ev.actor) ELSE "script")

(***************************************************************************)
(* SpecDay: Game.run_day on a constructed Game, whose group is empty and   *)
(* holds no chatbots or, as initialize_chatbots is written to leave it,    *)
(* one Chatbot per character.                                              *)
(***************************************************************************)
InitDay ==
    \E script \in DayScripts, registered \in {{}, Actors} :
       StartWith(Setup(<<<<>>, registered>>), NothingParsed, NewDay(script))

\* lines 495-511: load the day, add every character, set the day
RunDayLoad ==
    /\ day.pc = "load"
    /\ CommitWith(set_current_day(add_all(Group, GameCharacters), "day-01"),
                  Op("run_day", NoneVal, NoTarget, "", "script"),
                  [day EXCEPT !.events = load_day(day.entries), !.pc = "run"])

\* the index after lines 601-604: the next event that is not AI_ASSUME_CONTROL
RECURSIVE skip_ai_assume_control(_, _)
skip_ai_assume_control(events, i) ==
    IF i < Len(events) /\ events[i + 1].event_type = "ai_assume_control"
    THEN skip_ai_assume_control(events, i + 1)
    ELSE i

\* lines 515-632: one pass of the while loop.  An exception of event.apply
\* leaves run_day; after an AI_ASSUME_CONTROL event with write_to whose file
\* exists, the file's entries are loaded and applied inside try/except, and
\* the AI_ASSUME_CONTROL events that follow are passed over
RunDayStep ==
    /\ day.pc = "run"
    /\ day.index < Len(day.events)
    /\ \E backend \in Backends :
         LET i == day.index
             event == day.events[i + 1]
             g0 == [Group EXCEPT !.backend = backend]
             d1 == [day EXCEPT !.applied = Append(@, i + 1), !.steps = @ + 1]
         IN \E g \in Event_apply(g0, event) :
              IF g.err # "none"
              THEN CommitWith(g, EventOp(g0, event), [d1 EXCEPT !.pc = "raised"])
              ELSE IF event.event_type = "ai_assume_control" /\ event.write_to # ""
              THEN \E file_exists \in BOOLEAN :
                     IF file_exists
                     THEN \E conversation \in PreGenerated :
                            \E h \in apply_events(g, load_day(conversation)) :
                               IF h.err # "none"
                               THEN CommitWith([h EXCEPT !.err = "none"],
                                               EventOp(g0, event),
                                               [d1 EXCEPT !.index = i + 1])
                               ELSE CommitWith(h, EventOp(g0, event),
                                      [d1 EXCEPT !.index =
                                          skip_ai_assume_control(day.events, i + 1)])
                     ELSE CommitWith(g, EventOp(g0, event), [d1 EXCEPT !.index = i + 1])
              ELSE CommitWith(g, EventOp(g0, event), [d1 EXCEPT !.index = i + 1])

\* lines 634-636: the loop has ended
RunDayEnd ==
    /\ day.pc = "run"
    /\ day.index >= Len(day.events)
    /\ CommitWith(Group, Op("day_complete", NoneVal, NoTarget, "", "script"),
                  [day EXCEPT !.pc = "done"])

NextDay ==
    \/ RunDayLoad
    \/ RunDayStep
    \/ RunDayEnd

SpecDay == InitDay /\ [][NextDay]_vars

(***************************************************************************)
(* SpecGui: the step controls of GameGUI (src/gui_game.py) on the day      *)
(* loaded when the window is constructed.  An exception that leaves a slot *)
(* is reported by the toolkit and the window goes on.                      *)
(***************************************************************************)
MaxGuiSteps == 4

\* self.game.group = Group(): a new Group, the Character objects being those
\* of the game
ResetGroup(g) == [NewGroup(<<>>) EXCEPT !.characters = g.characters]

\* what the window shows of the simulation
Observable(g) ==
    [members |-> g.members, emotions |-> g.emotions, tension |-> g.tension,
     dominant_mood |-> get_dominant_mood(g),
     characters |-> [c \in SeqToSet(GameCharacters) |-> g.characters[c]]]

InitGui ==
    \E script \in DayScripts :
       StartWith(NewGroup(<<>>), NothingParsed, NewDay(script))

\* lines 399-435: load the events, reset the group, apply the first event;
\* an exception is caught and logged, the index staying 0
load_current_day ==
    /\ day.pc = "load"
    /\ \E backend \in Backends :
         LET current_events == load_day(day.entries)
             g0 == [add_all(ResetGroup(Group), GameCharacters) EXCEPT !.backend = backend]
             op == Op("load_current_day", NoneVal, NoTarget, "", "script")
             d1 == [day EXCEPT !.events = current_events, !.pc = "run"]
         IN IF current_events = <<>>
            THEN CommitWith(g0, op, d1)
            ELSE \E g \in Event_apply(g0, current_events[1]) :
                   CommitWith(g, op,
                              [d1 EXCEPT !.index = IF g.err = "none" THEN 1 ELSE 0,
                                         !.applied = <<1>>])

\* lines 437-456: apply the event at the index and move on; an exception
\* leaves the slot before the index is incremented
next_step ==
    /\ day.pc = "run"
    /\ day.steps < MaxGuiSteps
    /\ day.index < Len(day.events)
    /\ \E backend \in Backends :
         \E g \in Event_apply([Group EXCEPT !.backend = backend],
                              day.events[day.index + 1]) :
            CommitWith(g, Op("next_step", NoneVal, NoTarget, "", "script"),
                       [day EXCEPT !.index = IF g.err = "none" THEN @ + 1 ELSE @,
                                   !.applied = Append(@, day.index + 1),
                                   !.snapshot = Observable(Group),
                                   !.steps = @ + 1])

\* lines 458-466 and 488-504: step the index back, reset the group and
\* replay the events before the index
prev_step ==
    /\ day.pc = "run"
    /\ day.steps < MaxGuiSteps
    /\ day.index > 0
    /\ \E backend \in Backends :
         LET g0 == [add_all(ResetGroup(Group), GameCharacters) EXCEPT !.backend = backend]
         IN \E g \in apply_events(g0, SubSeq(day.events, 1, day.index - 1)) :
               CommitWith(g, Op("prev_step", NoneVal, NoTarget, "", "script"),
                          [day EXCEPT !.index = @ - 1,
                                      !.applied = [k \in 1..(day.index - 1) |-> k],
                                      !.steps = @ + 1])

NextGui ==
    \/ load_current_day
    \/ next_step
    \/ prev_step

SpecGui == InitGui /\ [][NextGui]_vars

(***************************************************************************)
(* SpecParse: Emotion.from_string applied to one string: the name of an    *)
(* Emotion value in any letter case, or a string that names no Emotion.    *)
(***************************************************************************)
\* the names of the members of the Emotion enum
EmotionName(e) ==
    IF e = "COMPASSIONATE"
         THEN <<"C", "O", "M", "P", "A", "S", "S", "I", "O", "N", "A", "T", "E">>
    ELSE IF e = "EXCITED" THEN <<"E", "X", "C", "I", "T", "E", "D">>
    ELSE IF e = "FLIRTY" THEN <<"F", "L", "I", "R", "T", "Y">>
    ELSE IF e = "HOPEFUL" THEN <<"H", "O", "P", "E", "F", "U", "L">>
    ELSE IF e = "HUMOROUS" THEN <<"H", "U", "M", "O", "R", "O", "U", "S">>
    ELSE IF e = "PROUD" THEN <<"P", "R", "O", "U", "D">>
    ELSE IF e = "RESPECTFUL" THEN <<"R", "E", "S", "P", "E", "C", "T", "F", "U", "L">>
    ELSE IF e = "SOLEMN" THEN <<"S", "O", "L", "E", "M", "N">>
    ELSE IF e = "CALM" THEN <<"C", "A", "L", "M">>
    ELSE IF e = "CONFUSED" THEN <<"C", "O", "N", "F", "U", "S", "E", "D">>
    ELSE IF e = "CONTEMPLATIVE"
         THEN <<"C", "O", "N", "T", "E", "M", "P", "L", "A", "T", "I", "V", "E">>
    ELSE IF e = "CURIOUS" THEN <<"C", "U", "R", "I", "O", "U", "S">>
    ELSE IF e = "SURPRISED" THEN <<"S", "U", "R", "P", "R", "I", "S", "E", "D">>
    ELSE IF e = "RESIGNED" THEN <<"R", "E", "S", "I", "G", "N", "E", "D">>
    ELSE IF e = "ANGRY" THEN <<"A", "N", "G", "R", "Y">>
    ELSE IF e = "ANXIOUS" THEN <<"A", "N", "X", "I", "O", "U", "S">>
    ELSE IF e = "DOWN" THEN <<"D", "O", "W", "N">>
    ELSE IF e = "EMBARRASSED"
         THEN <<"E", "M", "B", "A", "R", "R", "A", "S", "S", "E", "D">>
    ELSE IF e = "FEARFUL" THEN <<"F", "E", "A", "R", "F", "U", "L">>
    ELSE IF e = "IRRITATED" THEN <<"I", "R", "R", "I", "T", "A", "T", "E", "D">>
    ELSE IF e = "DEFENSIVE" THEN <<"D", "E", "F", "E", "N", "S", "I", "V", "E">>
    ELSE IF e = "DESPERATE" THEN <<"D", "E", "S", "P", "E", "R", "A", "T", "E">>
    ELSE IF e = "DISMISSIVE" THEN <<"D", "I", "S", "M", "I", "S", "S", "I", "V", "E">>
    ELSE IF e = "JEALOUS" THEN <<"J", "E", "A", "L", "O", "U", "S">>
    ELSE IF e = "SARCASTIC" THEN <<"S", "A", "R", "C", "A", "S", "T", "I", "C">>
    ELSE IF e = "SKEPTICAL" THEN <<"S", "K", "E", "P", "T", "I", "C", "A", "L">>
    ELSE IF e = "FRIENDLY" THEN <<"F", "R", "I", "E", "N", "D", "L", "Y">>
    ELSE IF e = "NEUTRAL" THEN <<"N", "E", "U", "T", "R", "A", "L">>
    ELSE IF e = "HOSTILE" THEN <<"H", "O", "S", "T", "I", "L", "E">>
    ELSE IF e = "ADMIRATION" THEN <<"A", "D", "M", "I", "R", "A", "T", "I", "O", "N">>
    ELSE IF e = "FEAR" THEN <<"F", "E", "A", "R">>
    ELSE <<>>

\* name with the letters at the positions in small written in lower case
Cased(name, small) ==
    [i \in 1..Len(name) |->
        IF i \in small THEN LowerLetters[IndexOf(name[i], UpperLetters)] ELSE name[i]]

\* strings that name no Emotion: "", "happy", "angr", "angryy", " angry", "FEARS"
NoEmotionStrings ==
    {<<>>, <<"h", "a", "p", "p", "y">>, <<"a", "n", "g", "r">>,
     <<"a", "n", "g", "r", "y", "y">>, <<" ", "a", "n", "g", "r", "y">>,
     <<"F", "E", "A", "R", "S">>}

\* the letters of a name that are tried in both cases are its first MaxCased
MaxCased == 7

\* the sets of positions written in lower case: every choice among the first
\* MaxCased letters, with the rest in upper case or in lower case
Casings(name) ==
    LET head == 1..Min(Len(name), MaxCased)
        rest == (1..Len(name)) \ head
    IN UNION {{small, small \cup rest} : small \in SUBSET head}

\* the strings to parse, each with the Emotion it spells
ParseInputs ==
    UNION {{[text |-> Cased(EmotionName(e), small), spells |-> e, emotion |-> NoneVal] :
              small \in Casings(EmotionName(e))} : e \in Emotion}
    \cup {[text |-> str, spells |-> NoneVal, emotion |-> NoneVal] : str \in NoEmotionStrings}

InitParse == \E input \in ParseInputs : StartWith(NewGroup(<<>>), input, NoDay)

Parse ==
    /\ parsed.emotion = NoneVal
    /\ parsed' = [parsed EXCEPT !.emotion = from_string(parsed.text)]
    /\ UNCHANGED <<members, emotions, tension, general_mood, chatbots, user_controls,
                   conversation_history, current_day, characters, calls, err, produced,
                   last, nEvents, prev, recorded, day>>

SpecParse == InitParse /\ [][Parse]_vars

(***************************************************************************)
(* SpecOffence: Character.is_offended_by called by client code, for every  *)
(* pair of actors and every Emotion value.  The Character objects are the  *)
(* ones of the roster, or ones constructed with the friends and the        *)
(* enemies of the roster exchanged.  The call is recorded like an          *)
(* apply_line invocation: speaker is the other actor, addressed_to the     *)
(* actor asked, offended the result.                                       *)
(***************************************************************************)
Turned(name) ==
    [current_emotion |-> "NEUTRAL",
     friends |-> Roster[name].enemies,
     enemies |-> Roster[name].friends]

InitOffence ==
    \/ Start(NewGroup(<<"A", "B", "C">>))
    \/ Start([NewGroup(<<"A", "B", "C">>) EXCEPT
                 !.characters = [c \in Actors |-> Turned(c)]])

IsOffendedBy ==
    /\ nEvents < MaxEvents
    /\ \E self \in Actors, other \in Actors, emotion \in Emotion :
         \E off \in is_offended_by(self, characters[self], other, emotion) :
            Commit([Group EXCEPT !.calls =
                       <<[Call(other, "", self, 0) EXCEPT !.emotion = emotion,
                                                          !.offended = off]>>],
                   Op("is_offended_by", self, One(other), "", "script"))

SpecOffence == InitOffence /\ [][IsOffendedBy]_vars

(***************************************************************************)
(* The claims.                                                             *)
(***************************************************************************)
DepthZero == {i \in DOMAIN calls : calls[i].depth = 0}

IsMember(c) == c # NoneVal /\ InSeq(c, members)

NoLineYet ==
    \A d \in DOMAIN conversation_history : conversation_history[d] = <<>>

LastN(s, n) == IF Len(s) > n THEN SubSeq(s, Len(s) - n + 1, Len(s)) ELSE s

\* the state is the one operation op left: every operation records itself in
\* last, and prev is the Group as that operation found it
Applied(op) == last.op = op /\ nEvents > 0

\* the last operation left the whole Group state as it found it
GroupUnchanged ==
    /\ members = prev.members
    /\ emotions = prev.emotions
    /\ tension = prev.tension
    /\ general_mood = prev.general_mood
    /\ chatbots = prev.chatbots
    /\ user_controls = prev.user_controls
    /\ conversation_history = prev.conversation_history
    /\ current_day = prev.current_day
    /\ characters = prev.characters

\* c was a member when the last operation began
WasMember(c) == c # NoneVal /\ InSeq(c, prev.members)

\* x had an active delegate when the last operation began
WasControlled(x) == IsActive(prev.chatbots, x) \/ IsActive(prev.user_controls, x)

\* C1: tension is 0.0 as long as no line has been applied, and after every
\* operation (whatever apply_line calls, offence bumps and replies it made, and
\* however it ended) it lies within [0.0, 1.0].
C1_TensionWithinBounds ==
    /\ tension >= TensionMin
    /\ tension <= TensionMax
    /\ NoLineYet => tension = 0

\* C1 witness: an apply_line call computed a tension above 1.0 and the
\* operation left tension at 1.0.
C1_Witness ==
    \E i \in DOMAIN calls :
        calls[i].ran /\ calls[i].preclamp > TensionMax /\ tension = TensionMax

\* C2: every ordered pair (a, b) of distinct current members has an attitude
\* entry emotions[a][b].
C2_AttitudeComplete ==
    \A a \in SeqToSet(members), b \in SeqToSet(members) :
        a # b => a \in DOMAIN emotions /\ b \in DOMAIN emotions[a]

\* C2 witness: A left the group and entered it again, behind B and C.
C2_Witness == last.op = "enter" /\ members = <<"B", "C", "A">>

\* C3: every operation returns normally and no apply_line frame is nested
\* deeper than one reply (reply depth at most 1).
C3_ReplyDepthBounded ==
    /\ err # "RecursionError"
    /\ \A i \in DOMAIN calls : calls[i].depth <= 1

\* C4: the text a dialogue event applies is the line the speaker's automated
\* delegate generated if that delegate is active, else the line the human chose
\* if the speaker's human delegate is active, else the scripted text.
C4_DialogueTextPrecedence ==
    last.op = "dialogue" =>
        LET applied == {calls[i].text : i \in DepthZero}
        IN IF last.mode \in {"ai", "user"}
           THEN applied \subseteq {produced}
           ELSE applied \subseteq {last.text}

\* C5: a dialogue event whose actor is a member (and that returns normally)
\* invokes apply_line once per target of a list, and once for a single target or
\* no target, in every control mode of the speaker.
C5_OncePerTarget ==
    (last.op = "dialogue" /\ IsMember(last.actor) /\ err = "none") =>
        Cardinality(DepthZero) =
            IF last.target.kind = "list" THEN Len(last.target.who) ELSE 1

\* C6: an apply_line call asks at most one delegate for a reply; it asks the
\* addressee's automated delegate whenever that one is active, and the human
\* delegate only when the addressee has no active automated delegate.
C6_OneReplyPath ==
    \A i \in DOMAIN calls :
        LET to == calls[i].addressed_to
        IN /\ Cardinality(calls[i].asked) <= 1
           /\ (calls[i].ran /\ IsMember(to) /\ IsActive(chatbots, to))
                 => calls[i].asked = {"auto"}
           /\ "human" \in calls[i].asked
                 => ~IsActive(chatbots, to) /\ IsActive(user_controls, to)

\* C6 witness: a line was addressed to a member whose automated and human
\* delegates are both active, and the automated one was asked.
C6_Witness ==
    \E i \in DOMAIN calls :
        /\ IsActive(chatbots, calls[i].addressed_to)
        /\ IsActive(user_controls, calls[i].addressed_to)
        /\ calls[i].asked = {"auto"}

\* C7: an apply_line call by a member (one that draws no reply) appends its
\* dialogue record to the history of every active delegate, automated and human,
\* and leaves the history of every inactive delegate unchanged.
C7_EveryActiveDelegateRecords ==
    (Applied("apply_line") /\ Len(calls) = 1 /\ calls[1].ran)
    => LET entry == [type |-> "dialogue", speaker |-> calls[1].speaker,
                     text |-> calls[1].text, emotion |-> calls[1].emotion,
                     addressed_to |-> calls[1].addressed_to]
       IN /\ \A c \in DOMAIN prev.chatbots :
                chatbots[c].conversation_history =
                    IF prev.chatbots[c].is_active
                    THEN LastN(Append(prev.chatbots[c].conversation_history, entry),
                               ChatbotHistoryCap)
                    ELSE prev.chatbots[c].conversation_history
          /\ \A c \in DOMAIN prev.user_controls :
                user_controls[c].conversation_history =
                    IF prev.user_controls[c].is_active
                    THEN LastN(Append(prev.user_controls[c].conversation_history, entry),
                               UserControlHistoryCap)
                    ELSE prev.user_controls[c].conversation_history

\* C8: after n add_to_history calls a delegate's history is exactly the last
\* min(n, 20) entries recorded, in recording order, for the automated and for the
\* human delegate.
C8_HistoryIsLastTwenty ==
    /\ chatbots["A"].conversation_history = LastN(recorded.chatbot, 20)
    /\ user_controls["A"].conversation_history = LastN(recorded.user_control, 20)
    /\ Len(chatbots["A"].conversation_history) <= 20
    /\ Len(user_controls["A"].conversation_history) <= 20

\* C8 witness: both delegates have been handed more than 20 entries, so both
\* have evicted.
C8_Witness == Len(recorded.chatbot) > 20 /\ Len(recorded.user_control) > 20

\* C9: every apply_line call whose speaker emotion is positive-category
\* computes tension - 0.03 (6 units) before clamping, every call whose speaker
\* emotion is negative-category computes tension + 0.02 (4 units), and the
\* decrease is larger in magnitude than the increase.
C9_AsymmetricTensionLaw ==
    /\ \A i \in DOMAIN calls :
          calls[i].ran =>
             /\ get_category(calls[i].emotion) = "positive"
                   => calls[i].preclamp = calls[i].before - 6
             /\ get_category(calls[i].emotion) = "negative"
                   => calls[i].preclamp = calls[i].before + 4
    /\ \A p \in positive : get_tension_impact(p) = -6
    /\ \A n \in negative : get_tension_impact(n) = 4
    /\ -PositiveImpact > NegativeImpact

\* C9 witness: a positive line applied at a tension of at least 0.03 lowered
\* the tension by exactly 0.03.
C9_Witness ==
    /\ Len(calls) = 1
    /\ calls[1].ran
    /\ get_category(calls[1].emotion) = "positive"
    /\ calls[1].before >= 6
    /\ tension = calls[1].before - 6

\* C10: an actor with resilience above 70 is not reported offended, by any
\* other actor and for any Emotion value (whatever its friends and enemies are
\* by now), and no apply_line call addressed to it was followed by the offence
\* bump.
C10_ResilientNeverOffended ==
    /\ \A self \in {a \in Actors : Roster[a].resilience > 70} :
          \A other \in Actors, e \in Emotion :
             is_offended_by(self, characters[self], other, e) = {FALSE}
    /\ \A i \in DOMAIN calls :
          (calls[i].ran /\ IsMember(calls[i].addressed_to)
             /\ Roster[calls[i].addressed_to].resilience > 70)
             => ~calls[i].offended
    /\ (Len(calls) = 1 /\ calls[1].ran /\ IsMember(calls[1].addressed_to)
          /\ Roster[calls[1].addressed_to].resilience > 70)
             => tension = Max(TensionMin, Min(TensionMax, calls[1].preclamp))

\* C10 witness: a negative line was addressed to B (resilience 71) by one of
\* B's enemies, and B was not offended.
C10_Witness ==
    \E i \in DOMAIN calls :
        /\ calls[i].ran
        /\ calls[i].addressed_to = "B"
        /\ IsMember("B")
        /\ InSeq(calls[i].speaker, characters["B"].enemies)
        /\ get_category(calls[i].emotion) = "negative"
        /\ ~calls[i].offended


\* C11: an enter event for an actor that is already a member, be its actor
\* the Character object the group holds or a newly constructed one of the same
\* name, leaves the member order, every attitude entry and the member's own
\* object unchanged.
C11_AddPresentIsNoOp ==
    (Applied("enter") /\ InSeq(last.actor, prev.members))
    => /\ members = prev.members
       /\ emotions = prev.emotions
       /\ characters = prev.characters

\* C11 witness: a newly constructed A entered while A was a member whose
\* attitudes and friends had moved away from the seeded ones.
C11_Witness ==
    /\ last.op = "enter"
    /\ last.actor = "A"
    /\ last.text = "fresh"
    /\ members = <<"A", "B", "C">>
    /\ emotions["B"]["A"] = "HOSTILE"
    /\ characters["A"] # Character("A")


\* C12: an apply_line call whose speaker is not a current member (called
\* directly, or by a dialogue event of an actor under no delegate's control)
\* changes nothing: tension, attitudes, mood snapshot, conversation log, delegate
\* maps and histories, every actor's friends, enemies and current_emotion, the
\* members; it runs none of its steps and asks no delegate for a reply.
C12_NonMemberSpeakerIsNoOp ==
    ((Applied("apply_line") \/ (Applied("dialogue") /\ last.mode = "script"))
     /\ ~InSeq(last.actor, prev.members))
    => /\ GroupUnchanged
       /\ err = "none"
       /\ \A i \in DOMAIN calls : ~calls[i].ran /\ calls[i].asked = {}

\* C12 witness: A, who had left a group with some tension, spoke an anxious
\* line to nobody.
C12_Witness ==
    /\ last.op = "apply_line"
    /\ last.actor = "A"
    /\ last.target = NoTarget
    /\ members = <<"B", "C">>
    /\ tension > 0
    /\ Len(calls) = 1
    /\ ~calls[1].ran


Controlled(x) == IsActive(chatbots, x) \/ IsActive(user_controls, x)

C14_ReturnToScriptNoDelegates ==
    (Applied("return_to_script")
     /\ last.actor \notin DOMAIN prev.chatbots
     /\ last.actor \notin DOMAIN prev.user_controls)
    => /\ err = "none"
       /\ GroupUnchanged

\* C14 witness: member C returned to script in a group where only
\* B has a delegate.
C14_Witness ==
    /\ last.op = "return_to_script"
    /\ last.actor = "C"
    /\ DOMAIN chatbots = {}
    /\ DOMAIN user_controls = {"B"}
    /\ InSeq("C", members)
    /\ err = "none"


\* C15: after an assume-automated-control event the targeted members (the
\* named actor, or every current member when the event names none) have a
\* registered chatbot whose is_active is true, and the event raised no error,
\* also when no chatbot was registered for them before.
C15_AssumeControlActivates ==
    last.op = "ai_assume_control" =>
        /\ err = "none"
        /\ \A c \in SeqToSet(members) :
              (last.actor = NoneVal \/ last.actor = c) => IsActive(chatbots, c)

\* C16: an assume-automated-control event that names an actor changes the
\* registration and the active flag of no other actor's chatbot.
C16_NamedActorOnly ==
    (Applied("ai_assume_control") /\ last.actor # NoneVal)
    => \A c \in Actors \ {last.actor} :
          /\ (c \in DOMAIN chatbots) = (c \in DOMAIN prev.chatbots)
          /\ c \in DOMAIN prev.chatbots
                => chatbots[c].is_active = prev.chatbots[c].is_active


\* C17: after an assume-human-control event for X, X has a registered user
\* control whose is_active is true; a user control registered before is the
\* one in place afterwards, with its history, and the chatbots are unchanged.
C17_UserAssumeControlReuses ==
    [][(last'.op = "user_assume_control" /\ nEvents' = nEvents + 1)
       => LET x == last'.actor
          IN /\ x \in DOMAIN user_controls'
             /\ user_controls'[x].is_active
             /\ x \in DOMAIN user_controls
                   => user_controls'[x].conversation_history
                         = user_controls[x].conversation_history
             /\ chatbots' = chatbots]_vars

\* C17 witness: the user assumed control of A, whose user control and chatbot
\* both had entries in their histories.
C17_Witness ==
    /\ last.op = "user_assume_control"
    /\ last.actor = "A"
    /\ user_controls["A"].is_active
    /\ Len(user_controls["A"].conversation_history) > 1
    /\ Len(chatbots["A"].conversation_history) > 1


\* the occurrences of e among the attitude entries and the members'
\* current emotions
CountNow(e) ==
    Cardinality({p \in Actors \X Actors :
                    /\ p[1] \in DOMAIN emotions
                    /\ p[2] \in DOMAIN emotions[p[1]]
                    /\ emotions[p[1]][p[2]] = e})
    + Cardinality({i \in 1..Len(members) : characters[members[i]].current_emotion = e})

\* the mood snapshot is the tally of the state it is in
MoodIsCurrent ==
    /\ DOMAIN general_mood = {e \in Emotion : CountNow(e) > 0}
    /\ \A e \in DOMAIN general_mood : general_mood[e][1] = CountNow(e)

\* C18: an offended event with actor A and target T, both current members,
\* sets attitude[A][T] to HOSTILE, recomputes the mood snapshot and leaves
\* tension, membership and every other attitude entry unchanged; when A or T is
\* not a current member it changes no Group state.
C18_OffendedEffect ==
    Applied("offended")
    => LET a == last.actor
           t == last.target.who[1]
       IN IF InSeq(a, prev.members) /\ InSeq(t, prev.members)
          THEN /\ emotions[a][t] = "HOSTILE"
               /\ DOMAIN emotions = DOMAIN prev.emotions
               /\ \A x \in DOMAIN prev.emotions :
                     /\ DOMAIN emotions[x]
                           = DOMAIN prev.emotions[x] \cup (IF x = a THEN {t} ELSE {})
                     /\ \A y \in DOMAIN prev.emotions[x] :
                           (x # a \/ y # t) => emotions[x][y] = prev.emotions[x][y]
               /\ MoodIsCurrent
               /\ members = prev.members
               /\ tension = prev.tension
               /\ chatbots = prev.chatbots
               /\ user_controls = prev.user_controls
               /\ conversation_history = prev.conversation_history
               /\ current_day = prev.current_day
               /\ characters = prev.characters
          ELSE GroupUnchanged

\* C18 witness: A took offence at its friend B in a group with some tension;
\* A is now hostile toward B and B's attitude toward A is as it was seeded.
C18_Witness ==
    /\ last.op = "offended"
    /\ last.actor = "A"
    /\ last.target = One("B")
    /\ members = <<"A", "B", "C">>
    /\ emotions["A"]["B"] = "HOSTILE"
    /\ emotions["B"]["A"] = "FRIENDLY"
    /\ tension > 0
    /\ MoodIsCurrent


\* C19: a day-start, day-end or environment-change event leaves the whole
\* Group state unchanged: members, attitudes, tension, mood snapshot, delegate
\* maps with their active flags and histories, conversation log, current day,
\* and the actors' own emotions, friends and enemies; it raises no error.
C19_NotificationsChangeNothing ==
    (Applied("day_start") \/ Applied("day_end") \/ Applied("environment_change"))
    => /\ err = "none"
       /\ GroupUnchanged

\* C19 witness: a day started in a group with some tension, a log and an
\* actor under a delegate's control.
C19_Witness ==
    /\ last.op = "day_start"
    /\ tension > 0
    /\ members # <<>>
    /\ \E x \in Actors : Controlled(x)
    /\ ~NoLineYet


\* the operations that are applied Events
EventOps ==
    {"dialogue", "enter", "leave", "offended", "ai_assume_control",
     "user_assume_control", "return_to_script", "day_start", "day_end",
     "environment_change"}

\* d is a most frequent Emotion of the current state, NEUTRAL when the state
\* has nothing to tally
MostFrequentNow(d) ==
    IF \A e \in Emotion : CountNow(e) = 0 THEN d = "NEUTRAL"
    ELSE \A e \in Emotion : CountNow(e) <= CountNow(d)

\* C20: after every applied Event (enter and leave included) the dominant
\* mood get_dominant_mood reports is an Emotion with the highest number of
\* occurrences among the current attitude entries and the current members'
\* current emotions, NEUTRAL when there is nothing to tally.  (Whatever entry the
\* tie-break of max() picks among the largest shares of the snapshot.)
C20_DominantMoodIsCurrent ==
    last.op \in EventOps => \E d \in get_dominant_mood(Group) : MostFrequentNow(d)



\* the log of the current day holds a record of speaker saying text
Logged(speaker, text) ==
    /\ current_day \in DOMAIN conversation_history
    /\ \E i \in DOMAIN conversation_history[current_day] :
          /\ conversation_history[current_day][i].speaker = speaker
          /\ conversation_history[current_day][i].text = text

\* C21: when the generation call of the active chatbot of a member who
\* speaks in a dialogue event fails, the event completes without an exception,
\* the fallback text is the line produced, and it is applied as a line: an
\* apply_line call of the speaker with the fallback text runs, the line is
\* recorded in the log of the day and the mood snapshot is recomputed.
C21_FallbackLineApplied ==
    (/\ Applied("dialogue")
     /\ last.mode = "ai"
     /\ InSeq(last.actor, prev.members)
     /\ produced = FallbackText)
    => /\ err = "none"
       /\ \E i \in DOMAIN calls :
             /\ calls[i].depth = 0
             /\ calls[i].ran
             /\ calls[i].speaker = last.actor
             /\ calls[i].text = FallbackText
       /\ \E a \in Actors : a = last.actor /\ Logged(a, FallbackText)
       /\ MoodIsCurrent



\* C25: Emotion.from_string is total and case-insensitive: the name of an
\* Emotion value e parses to e in every letter case (any casing of FLIRTY gives
\* FLIRTY, whose category is positive and whose tension delta is -0.03), and a
\* string that names no Emotion parses to NEUTRAL.
C25_ParsingCaseInsensitive ==
    parsed.emotion # NoneVal
    => /\ parsed.emotion \in Emotion
       /\ parsed.spells # NoneVal => parsed.emotion = parsed.spells
       /\ parsed.spells = NoneVal => parsed.emotion = "NEUTRAL"
       /\ parsed.spells = "FLIRTY"
          => /\ get_category(parsed.emotion) = "positive"
             /\ get_tension_impact(parsed.emotion) = -6

\* C25 witness: "FliRtY" has been parsed to FLIRTY.
C25_Witness ==
    /\ parsed.text = <<"F", "l", "i", "R", "t", "Y">>
    /\ parsed.spells = "FLIRTY"
    /\ parsed.emotion = "FLIRTY"



\* the attitude add seeds for subject towards object, read from the lists
\* of the subject's Character object after the step
Seeded(subject, object) ==
    IF InSeq(object, characters[subject].friends) THEN "FRIENDLY"
    ELSE IF InSeq(object, characters[subject].enemies) THEN "HOSTILE"
    ELSE "NEUTRAL"

\* C26: an enter event for an actor N that is not a member appends N to
\* the member order and seeds, for every existing member c, attitude[N][c] from
\* N's friends and enemies and attitude[c][N] from c's friends and enemies
\* (FRIENDLY, else HOSTILE, else NEUTRAL); the entries between existing members
\* are unchanged.
C26_AddSeedsBothDirections ==
    (Applied("enter") /\ ~InSeq(last.actor, prev.members))
    => \E N \in Actors :
         /\ N = last.actor
         /\ members = Append(prev.members, N)
         /\ DOMAIN emotions = SeqToSet(members)
         /\ \A c \in SeqToSet(prev.members) :
               /\ DOMAIN emotions[c] = DOMAIN prev.emotions[c] \cup {N}
               /\ emotions[N][c] = Seeded(N, c)
               /\ emotions[c][N] = Seeded(c, N)
               /\ \A d \in DOMAIN prev.emotions[c] :
                     emotions[c][d] = prev.emotions[c][d]

\* C26 witness: B has entered a group in which A, whom B has come to count
\* among the enemies while A still counts B among the friends, is a member.
C26_Witness ==
    /\ last.op = "enter"
    /\ last.actor = "B"
    /\ Len(members) >= 2
    /\ members[Len(members)] = "B"
    /\ IsMember("A")
    /\ emotions["B"]["A"] = "HOSTILE"
    /\ emotions["A"]["B"] = "FRIENDLY"



\* C27: in every state the attitude matrix has no entry whose subject or
\* object is not a current member (a leave event purges every entry that
\* references the leaving actor), and a leave event for an actor that is not a
\* member changes nothing.
C27_OnlyMembersInMatrix ==
    /\ \A a \in DOMAIN emotions :
          /\ InSeq(a, members)
          /\ \A b \in DOMAIN emotions[a] : InSeq(b, members)
    /\ (Applied("leave") /\ ~InSeq(last.actor, prev.members))
          => /\ err = "none"
             /\ GroupUnchanged

\* C27 witness: B has left a group of three in which attitudes had been
\* changed by a line, and the two who stay hold entries about each other only.
C27_Witness ==
    /\ last.op = "leave"
    /\ last.actor = "B"
    /\ members = <<"A", "C">>
    /\ ~NoLineYet
    /\ DOMAIN emotions = {"A", "C"}
    /\ DOMAIN emotions["A"] = {"C"}



\* C28: the attitude matrix covers ordered pairs of distinct members only:
\* in every reachable state no actor has an entry attitude[a][a] toward itself,
\* also after an offended event whose actor is its target and after a line a
\* speaker addresses to itself.
C28_NoSelfAttitude ==
    \A a \in DOMAIN emotions : a \notin DOMAIN emotions[a]



\* s holds no element twice
DuplicateFree(s) == \A i, j \in DOMAIN s : s[i] = s[j] => i = j

\* C29: friends and enemies of every actor, disjoint and duplicate-free
\* when the actors are constructed, stay disjoint and duplicate-free whatever
\* lines are applied: a reaction moves the speaker from one list to the other
\* and never leaves it in both.
C29_FriendsEnemiesDisjoint ==
    \A c \in Actors :
       /\ SeqToSet(characters[c].friends) \cap SeqToSet(characters[c].enemies) = {}
       /\ DuplicateFree(characters[c].friends)
       /\ DuplicateFree(characters[c].enemies)

\* C29 witness: lines have moved A from C's enemies to C's friends and from
\* B's friends to B's enemies.
C29_Witness ==
    /\ last.op \in {"apply_line", "dialogue"}
    /\ characters["C"].friends = <<"A">>
    /\ characters["C"].enemies = <<>>
    /\ characters["B"].friends = <<>>
    /\ characters["B"].enemies = <<"A">>



\* the last operation was one apply_line call by a member that returned: a
\* direct call, or a scripted dialogue event with one target or none
LineReturns ==
    /\ \/ Applied("apply_line")
       \/ Applied("dialogue") /\ last.mode = "script" /\ last.target.kind # "list"
    /\ InSeq(last.actor, prev.members)
    /\ err = "none"

\* every other member has reacted to S: what S's emotion says about where S
\* stands in the lists of c after the operation
ReactedTo(S, c) ==
    LET cat == get_category(characters[S].current_emotion)
    IN IF cat = "positive"
       THEN /\ ~InSeq(S, characters[c].enemies)
            /\ InSeq(S, prev.characters[c].enemies) => InSeq(S, characters[c].friends)
       ELSE IF cat = "negative"
       THEN ~InSeq(S, characters[c].friends)
       ELSE /\ InSeq(S, characters[c].friends) <=> InSeq(S, prev.characters[c].friends)
            /\ InSeq(S, characters[c].enemies) <=> InSeq(S, prev.characters[c].enemies)

\* C30: when an apply_line call by member S returns, every other current
\* member has reacted to S's emotion (positive: none has S among its enemies and
\* the former enemies have S as a friend; negative: none has S among its
\* friends; otherwise no member's relation to S changed), and S's own friends
\* and enemies are as they were before the call.
C30_EveryoneReacted ==
    LineReturns
    => \E S \in Actors :
         /\ S = last.actor
         /\ \A c \in SeqToSet(members) \ {S} : ReactedTo(S, c)
         /\ characters[S].friends = prev.characters[S].friends
         /\ characters[S].enemies = prev.characters[S].enemies



\* C30 as amended: when an apply_line call by member S returns, every other
\* current member has reacted to S's emotion as above; S's own friends and
\* enemies are as they were before the call when no delegate replied to the
\* line (a reply is a line of the addressee, to which S reacts like every other
\* member).
C30_EveryoneReactedOwnListsWithoutReply ==
    LineReturns
    => \E S \in Actors :
         /\ S = last.actor
         /\ \A c \in SeqToSet(members) \ {S} : ReactedTo(S, c)
         /\ Len(calls) = 1
            => /\ characters[S].friends = prev.characters[S].friends
               /\ characters[S].enemies = prev.characters[S].enemies

\* C30 witness: C's admiring line to A has returned after A's delegate
\* replied to it, and A, a former enemy, has C as a friend.
C30_Witness ==
    /\ last.op = "apply_line"
    /\ last.actor = "C"
    /\ err = "none"
    /\ Len(calls) >= 2
    /\ calls[1].emotion = "ADMIRATION"
    /\ InSeq("C", characters["A"].friends)
    /\ ~InSeq("C", characters["A"].enemies)



\* the entry is of a type that needs a character
NeedsCharacter(entry) ==
    entry.event_type \notin {"day_start", "day_end", "environment_change"}

\* C22: a script entry whose character is missing or does not resolve
\* gives no Event, and an Event whose target reference did not resolve is
\* skipped when the day runs: applying it raises nothing, leaves the Group and
\* the Character objects unchanged, and the run goes on to the next event.
C22_UnresolvedReferenceSkipped ==
    /\ [](\A k \in DOMAIN day.events :
             NeedsCharacter(day.entries[day.events[k].entry])
             => resolve_character(day.entries[day.events[k].entry].character) # NoneVal)
    /\ [][(/\ day.pc = "run"
           /\ day'.steps = day.steps + 1
           /\ day.events[day.index + 1].unresolved)
          => /\ err' = "none"
             /\ day'.pc = "run"
             /\ day'.index = day.index + 1
             /\ UNCHANGED <<members, emotions, tension, general_mood, chatbots,
                            user_controls, conversation_history, characters>>]_vars

\* C23: run_day applies the loaded Events of the day strictly in script
\* order, each exactly once, and is not ended before the end of the event list:
\* no exception leaves the run, the Events applied so far are the first of the
\* list without a gap, and a completed day has applied them all.
C23_EveryEventOnceInOrder ==
    /\ day.pc # "raised"
    /\ day.applied = [k \in 1..Len(day.applied) |-> k]
    /\ day.pc = "done" => Len(day.applied) = Len(day.events)



\* C24: undo is the inverse of a step: when prev_step follows a next_step
\* (both without an exception), what the window shows of the simulation (member
\* list, attitude matrix, tension, dominant mood, every actor's current emotion,
\* friends and enemies) is what it showed before that next_step.
C24_UndoRestoresState ==
    [][(/\ last.op = "next_step"
        /\ err = "none"
        /\ last'.op = "prev_step"
        /\ day'.steps = day.steps + 1
        /\ err' = "none")
       => Observable(Group)' = day.snapshot]_vars



\* the attitude entry emotions[x][y], "None" where there is none
Attitude(m, x, y) ==
    IF x \in DOMAIN m /\ y \in DOMAIN m[x] THEN m[x][y] ELSE NoneVal

\* C31: an apply_line call by member S addressed to a current member T
\* without active delegate sets attitude[T][S] to FRIENDLY if S's emotion is
\* positive-category and to HOSTILE if it is negative-category, and changes no
\* other attitude entry (for a neutral or complex emotion it changes none);
\* with no addressee, or an addressee that is not a member, no attitude entry
\* changes.
C31_AttitudeOfAddresseeOnly ==
    LineReturns
    => \E S \in Actors :
         /\ S = last.actor
         /\ LET T == IF last.target.kind = "one" THEN last.target.who[1]
                     ELSE NoneVal
                cat == get_category(characters[S].current_emotion)
            IN IF WasMember(T)
               THEN ~WasControlled(T)
                    => /\ DOMAIN emotions = DOMAIN prev.emotions
                       /\ \A x, y \in Actors :
                             Attitude(emotions, x, y) =
                                 IF x = T /\ y = S /\ cat = "positive" THEN "FRIENDLY"
                                 ELSE IF x = T /\ y = S /\ cat = "negative"
                                 THEN "HOSTILE"
                                 ELSE Attitude(prev.emotions, x, y)
               ELSE emotions = prev.emotions

\* C31 witness: C's admiring line to A, who had C as an enemy and is under no
\* delegate's control, made A's attitude towards C FRIENDLY and left C's
\* attitude towards A as seeded.
C31_Witness ==
    /\ last.op = "apply_line"
    /\ last.actor = "C"
    /\ last.target = One("A")
    /\ ~Controlled("A")
    /\ Len(calls) = 1
    /\ calls[1].ran
    /\ calls[1].emotion = "ADMIRATION"
    /\ emotions["A"]["C"] = "FRIENDLY"
    /\ emotions["C"]["A"] = "HOSTILE"



\* C32: an apply_line call by a member, addressed to a member without active
\* delegate, leaves the tension at the clamped sum of the old tension and the
\* emotion's delta, plus 0.015 (3 units, clamped to 1.0) exactly when the
\* addressee was reported offended; for a negative-category emotion that is the
\* old tension raised by 0.02 or by 0.035, clamped, and nothing else; a line
\* with no member addressee leaves the clamped sum without the 0.015.
C32_OffenceBumpIsAdditive ==
    LineReturns
    => \E S \in Actors :
         /\ S = last.actor
         /\ LET T == IF last.target.kind = "one" THEN last.target.who[1]
                     ELSE NoneVal
                cur == characters[S].current_emotion
                base == Max(0, Min(200, prev.tension + get_tension_impact(cur)))
                bumped == Min(200, base + 3)
            IN IF WasMember(T)
               THEN ~WasControlled(T)
                    => /\ Len(calls) = 1
                       /\ tension = IF calls[1].offended THEN bumped ELSE base
                       /\ get_category(cur) = "negative"
                             => /\ base = Min(200, prev.tension + 4)
                                /\ tension \in {Min(200, prev.tension + 4),
                                                 Min(200, prev.tension + 7)}
               ELSE /\ tension = base
                    /\ \A i \in DOMAIN calls : ~calls[i].offended

\* C32 witness: C's angry line to A (resilience 70, C among its enemies, no
\* delegate active) offended A, and the tension rose by 0.035.
C32_Witness ==
    /\ last.op = "dialogue"
    /\ last.actor = "C"
    /\ last.target = One("A")
    /\ ~Controlled("A")
    /\ Len(calls) = 1
    /\ calls[1].emotion = "ANGRY"
    /\ calls[1].offended
    /\ tension = calls[1].before + 7



\* C33: is_offended_by can report offended only when the actor's resilience
\* is at most 70 and the emotion is negative-category, or complex-category with
\* the other actor among the actor's enemies; for every positive, neutral or
\* unknown-category emotion it reports not offended, whatever the relationship.
C33_OffenceOnlyOnNegativeOrEnemyComplex ==
    last.op = "is_offended_by" =>
        LET self == last.actor
            other == calls[1].speaker
            cat == get_category(calls[1].emotion)
        IN /\ calls[1].offended
                => /\ Roster[self].resilience <= 70
                   /\ \/ cat = "negative"
                      \/ cat = "complex" /\ InSeq(other, characters[self].enemies)
           /\ cat \in {"positive", "neutral", "unknown"} => ~calls[1].offended

\* C33 witness: A (resilience 70) was offended by the sarcasm of its enemy C.
C33_Witness ==
    /\ last.op = "is_offended_by"
    /\ last.actor = "A"
    /\ calls[1].speaker = "C"
    /\ InSeq("C", characters["A"].enemies)
    /\ calls[1].emotion = "SARCASTIC"
    /\ calls[1].offended



IsPrefix(s, t) == Len(s) <= Len(t) /\ SubSeq(t, 1, Len(s)) = s

\* C34: the conversation log is append-only per day: every step keeps every
\* day's log as a prefix of that day's log afterwards; set_current_day makes
\* its id the current day, creates an empty log for an unseen id and leaves
\* every existing log as it is; every other operation leaves the current day
\* and appends only to the log of the current day.
C34_LogAppendOnlyPerDay ==
    /\ \A d \in DOMAIN prev.conversation_history :
          /\ d \in DOMAIN conversation_history
          /\ IsPrefix(prev.conversation_history[d], conversation_history[d])
    /\ Applied("set_current_day")
          => /\ current_day = last.text
             /\ conversation_history =
                    IF last.text \in DOMAIN prev.conversation_history
                    THEN prev.conversation_history
                    ELSE Put(prev.conversation_history, last.text, <<>>)
    /\ ~Applied("set_current_day")
          => /\ current_day = prev.current_day
             /\ \A d \in DOMAIN conversation_history \ {prev.current_day} :
                   /\ d \in DOMAIN prev.conversation_history
                   /\ conversation_history[d] = prev.conversation_history[d]

\* C34 witness: after lines on day-01 and a switch to day-02, the group
\* switched back to day-01, whose log still holds its lines, next to the empty
\* log of day-02.
C34_Witness ==
    /\ last.op = "set_current_day"
    /\ last.text = "day-01"
    /\ current_day = "day-01"
    /\ "day-02" \in DOMAIN conversation_history
    /\ conversation_history["day-02"] = <<>>
    /\ conversation_history["day-01"] # <<>>



\* the record apply_line appends for invocation c
RecordOf(c) ==
    [type |-> "dialogue", speaker |-> c.speaker, text |-> c.text, emotion |-> c.emotion,
     addressed_to |-> c.addressed_to]

\* the last operation was a dialogue event or a direct apply_line call
LineStep == Applied("apply_line") \/ Applied("dialogue")

\* the records the last operation appended to the log of the day that was
\* current when it began
Appended ==
    LET old == IF prev.current_day \in DOMAIN prev.conversation_history
               THEN Len(prev.conversation_history[prev.current_day]) ELSE 0
        log == IF prev.current_day \in DOMAIN conversation_history
               THEN conversation_history[prev.current_day] ELSE <<>>
    IN SubSeq(log, old + 1, Len(log))

\* C35: when a line from S is addressed to member T whose active delegate
\* returns a non-empty reply, the reply is applied inside the same operation as
\* a line from T addressed to S with T's current emotion (which the operation
\* changes for nobody but its own speaker, at its start), and its log record
\* directly follows the record of the line that drew it; a delegate's empty
\* reply appends no record (what follows, if anything, is the next top-level
\* line); the operation appends nothing else.
C35_ReplyRecordFollowsItsLine ==
    LineStep
    => LET ran == {i \in DOMAIN calls : calls[i].ran}
           pos(i) == Cardinality({j \in ran : j <= i})
       IN /\ Len(Appended) = Cardinality(ran)
          /\ \A i \in ran : Appended[pos(i)] = RecordOf(calls[i])
          /\ \A i \in ran :
                IF calls[i].reply # ""
                THEN /\ pos(i) + 1 \in DOMAIN Appended
                     /\ Appended[pos(i) + 1] =
                           [type |-> "dialogue",
                            speaker |-> calls[i].addressed_to,
                            text |-> calls[i].reply,
                            emotion |->
                                characters[calls[i].addressed_to].current_emotion,
                            addressed_to |-> calls[i].speaker]
                ELSE (i + 1) \in DOMAIN calls => calls[i + 1].depth = 0



C37_AtMostOneActiveDelegate ==
    \A x \in Actors : ~(IsActive(chatbots, x) /\ IsActive(user_controls, x))

\* C37 as amended: the two active flags are independent (an assume-control
\* event of one kind leaves every flag of the other kind as it is, so both
\* delegates of an actor can be active at once), and at most one delegate acts
\* for an actor: while both delegates of X are active, a dialogue event of X
\* takes the line of the automated delegate, and every line addressed to member
\* X asks the automated delegate and not the human one.
C37_AutomatedDelegateActsWhenBothActive ==
    /\ Applied("ai_assume_control")
          => \A x \in Actors :
                IsActive(user_controls, x) <=> IsActive(prev.user_controls, x)
    /\ Applied("user_assume_control")
          => \A x \in Actors : IsActive(chatbots, x) <=> IsActive(prev.chatbots, x)
    /\ \A x \in Actors :
          (IsActive(prev.chatbots, x) /\ IsActive(prev.user_controls, x))
          => /\ (Applied("dialogue") /\ last.actor = x)
                   => produced \in OpenAIAdapter_generate_response("up")
                                     \cup OpenAIAdapter_generate_response("down")
             /\ LineStep
                   => \A i \in DOMAIN calls :
                         (calls[i].ran /\ calls[i].addressed_to = x
                            /\ InSeq(x, prev.members))
                         => calls[i].asked = {"auto"}

\* C37 witness: A, whose automated and human delegates are both active, was
\* the actor of a dialogue event, and the line of the automated delegate was
\* taken.
C37_Witness ==
    /\ last.op = "dialogue"
    /\ last.actor = "A"
    /\ IsActive(chatbots, "A")
    /\ IsActive(user_controls, "A")
    /\ produced = "generated"



\* the tension apply_line invocation c leaves when it draws no reply: the
\* clamped sum it computed, raised by the offence bump if the addressee was
\* offended
TensionAfter(c) ==
    LET base == Max(TensionMin, Min(TensionMax, c.preclamp))
    IN IF c.offended THEN Min(TensionMax, base + OffenceBump) ELSE base

\* the last operation was a scripted dialogue event addressed to a list of
\* current members, while no delegate was active
ListLine ==
    /\ Applied("dialogue")
    /\ last.mode = "script"
    /\ last.target.kind = "list"
    /\ \A x \in Actors : ~WasControlled(x)
    /\ \A i \in DOMAIN last.target.who : InSeq(last.target.who[i], prev.members)

\* the event applied the line of its actor once to each target of the list, in
\* list order: one record per target, and the tension delta of the speaker's
\* emotion added once per target, each time on top of what the application
\* before it left; with an empty list no record and no change of state
AppliedPerTarget ==
    \E S \in Actors :
        /\ S = last.actor
        /\ LET who == last.target.who
               k == Len(who)
               delta == get_tension_impact(characters[S].current_emotion)
           IN /\ err = "none"
              /\ Len(calls) = k
              /\ Len(Appended) = k
              /\ \A i \in 1..k :
                    /\ calls[i].ran
                    /\ calls[i].depth = 0
                    /\ calls[i].speaker = S
                    /\ calls[i].text = last.text
                    /\ calls[i].addressed_to = who[i]
                    /\ Appended[i] = RecordOf(calls[i])
                    /\ calls[i].before =
                          IF i = 1 THEN prev.tension ELSE TensionAfter(calls[i - 1])
                    /\ calls[i].preclamp = calls[i].before + delta
              /\ k > 0 => tension = TensionAfter(calls[k])
              /\ k = 0 => GroupUnchanged

\* C38: a scripted dialogue event addressed to a list of k current members
\* (no delegate active) applies the line k times: it appends k records to the
\* log of the current day and adds the tension delta of the speaker's emotion k
\* times; with an empty list it appends no record and changes no state.
C38_ListLineAppliedPerTarget ==
    ListLine => AppliedPerTarget

\* C38 as amended: the same of a scripted dialogue event whose actor is a
\* current member.
C38_MemberListLineAppliedPerTarget ==
    (ListLine /\ InSeq(last.actor, prev.members)) => AppliedPerTarget

\* C38 witness: A's angry line to the list [B, C] was applied twice: two
\* records, and the tension rose by at least twice 0.02.
C38_Witness ==
    /\ last.op = "dialogue"
    /\ last.actor = "A"
    /\ last.mode = "script"
    /\ last.target = List(<<"B", "C">>)
    /\ \A x \in Actors : ~Controlled(x)
    /\ Len(calls) = 2
    /\ calls[1].ran /\ calls[2].ran
    /\ calls[1].emotion = "ANGRY"
    /\ tension >= calls[1].before + 8
    /\ Len(conversation_history[current_day]) >= 2



\* C39: an operation that applies lines (a dialogue event or a direct
\* apply_line call, with every reply it draws, however it ends) changes the
\* current_emotion of no actor other than the speaker of its outermost call: a
\* replying addressee speaks with the emotion it had and keeps it, and the
\* emotions of bystanders are untouched.
C39_OnlySpeakerEmotionChanges ==
    LineStep
    => /\ \A x \in Actors \ {last.actor} :
             characters[x].current_emotion = prev.characters[x].current_emotion
       /\ \A i \in DOMAIN calls :
             (calls[i].ran /\ calls[i].depth > 0
                /\ calls[i].speaker # last.actor)
             => calls[i].emotion = prev.characters[calls[i].speaker].current_emotion

\* C39 witness: B, left ANXIOUS by an earlier line, replied through its
\* delegate to a line of another actor: the reply carried ANXIOUS and B is
\* still ANXIOUS.
C39_Witness ==
    /\ last.op \in {"apply_line", "dialogue"}
    /\ last.actor # "B"
    /\ Len(calls) >= 2
    /\ calls[2].ran
    /\ calls[2].depth = 1
    /\ calls[2].speaker = "B"
    /\ calls[2].emotion = "ANXIOUS"
    /\ characters["B"].current_emotion = "ANXIOUS"



\* every record the last operation appended has a speaker that is a current member, and
\* every appended record that is a reply (the record of a nested apply_line
\* invocation) has a speaker with an active delegate
RecordsOfMembersRepliesOfDelegates ==
    LET ran == {i \in DOMAIN calls : calls[i].ran}
    IN /\ \A i \in DOMAIN Appended : InSeq(Appended[i].speaker, prev.members)
       /\ Len(Appended) = Cardinality(ran)
       /\ \A i \in ran :
             /\ InSeq(calls[i].speaker, prev.members)
             /\ calls[i].depth > 0 => WasControlled(calls[i].speaker)

\* the last operation was a dialogue event with one target or none, while no
\* delegate was active
PlainDialogue ==
    /\ Applied("dialogue")
    /\ last.target.kind # "list"
    /\ \A x \in Actors : ~WasControlled(x)

\* C40: every record in the conversation log has a speaker that was a current
\* member when it was appended, and every record of a reply has a speaker whose
\* automated or human delegate was active at that moment; when no delegate is
\* active, a dialogue event with a single target or no target appends exactly
\* one record.
C40_RecordsAndTheirSpeakers ==
    /\ RecordsOfMembersRepliesOfDelegates
    /\ PlainDialogue => Len(Appended) = 1

\* C40 as amended: the same, the dialogue event that appends exactly one
\* record being one whose actor is a current member; the event of an actor that
\* is not a current member appends none.
C40_RecordsAndTheirSpeakersMemberEvent ==
    /\ RecordsOfMembersRepliesOfDelegates
    /\ PlainDialogue
          => Len(Appended) = IF InSeq(last.actor, prev.members) THEN 1 ELSE 0

\* C40 witness: the last record of the log is the reply of an actor under a
\* delegate's control to the line before it.
C40_Witness ==
    /\ last.op \in {"apply_line", "dialogue"}
    /\ err = "none"
    /\ Len(calls) = 2
    /\ calls[2].depth = 1
    /\ Controlled(calls[2].speaker)
    /\ IsMember(calls[2].speaker)
    /\ LET log == conversation_history[current_day]
       IN /\ Len(log) >= 2
          /\ log[Len(log)] = RecordOf(calls[2])
          /\ log[Len(log) - 1] = RecordOf(calls[1])

====
